---- MODULE Spec2Model ----
(***************************************************************************)
(* State-machine model of the script bridge runtime                        *)
(* (src/scripts/bridge_runtime.py): the AST security gate, the script      *)
(* loader, the two timeout executors (SIGALRM and watchdog thread), the    *)
(* line-protocol dispatch loop and the event emitter with its writer lock. *)
(***************************************************************************)
EXTENDS Integers, Sequences, FiniteSets, TLC

\* ------------------------------------------------------------------ bounds

\* Number of input lines the host sends before end-of-input.
MaxLines == 2
\* Nesting depth of statements in the scripts that are analysed.
MaxDepth == 2
\* Number of background threads the loaded module may start in setup().
MaxBg == 1

\* ------------------------------------------------------- security analyzer

FORBIDDEN_MODULES ==
    {"os", "subprocess", "shutil", "ctypes", "importlib", "pathlib", "socket",
     "pickle", "multiprocessing", "marshal", "signal", "tempfile"}

FORBIDDEN_BUILTINS == {"__import__", "exec", "eval", "compile"}

\* A dotted module path is the sequence of its segments; None is <<>>.
DottedNames == {<<"os">>, <<"json">>, <<"os", "path">>, <<"json", "os">>}

NoFunc == [fk |-> "", id |-> ""]

\* One syntax node: ast.Import (names: the aliases), ast.ImportFrom (module),
\* ast.Call (func: a Name or an Attribute callee), any compound statement
\* (FunctionDef: body holds its children), anything else (Pass).
Node(kind, names, module, func, body) ==
    [kind |-> kind, names |-> names, module |-> module, func |-> func, body |-> body]

Alias(name, asname) == [name |-> name, asname |-> asname]

ImportNodes ==
    {Node("Import", <<Alias(d, "")>>, <<>>, NoFunc, <<>>) : d \in DottedNames}
    \cup {Node("Import", <<Alias(<<"os">>, "x")>>, <<>>, NoFunc, <<>>),
          Node("Import", <<Alias(<<"json">>, ""), Alias(<<"os">>, "")>>, <<>>, NoFunc, <<>>)}

ImportFromNodes ==
    {Node("ImportFrom", <<>>, d, NoFunc, <<>>) : d \in DottedNames \cup {<<>>}}

CallNodes ==
    {Node("Call", <<>>, <<>>, [fk |-> "Name", id |-> "eval"], <<>>),
     Node("Call", <<>>, <<>>, [fk |-> "Name", id |-> "print"], <<>>),
     Node("Call", <<>>, <<>>, [fk |-> "Attribute", id |-> "eval"], <<>>)}

LeafNodes ==
    ImportNodes \cup ImportFromNodes \cup CallNodes
    \cup {Node("Pass", <<>>, <<>>, NoFunc, <<>>)}

\* Statements nested at most d deep inside function definitions (code that is
\* in the file but only runs if the function is called).
RECURSIVE NodesAt(_)
NodesAt(d) ==
    IF d = 0 THEN LeafNodes
    ELSE LeafNodes \cup
         {Node("FunctionDef", <<>>, <<>>, NoFunc, <<n>>) : n \in NodesAt(d - 1)}

\* The source files on disk: a module body of at most two statements, or a
\* text that does not parse.
SyntaxErr == <<Node("SyntaxError", <<>>, <<>>, NoFunc, <<>>)>>

Sources ==
    LET N == NodesAt(MaxDepth)
    IN  {<<>>} \cup {<<n>> : n \in N} \cup {<<n, m>> : n \in N, m \in N}
        \cup {SyntaxErr}

\* ast.walk: breadth-first, the node first, then its children appended.
RECURSIVE WalkFrom(_)
WalkFrom(todo) ==
    IF todo = <<>> THEN <<>>
    ELSE <<Head(todo)>> \o WalkFrom(Tail(todo) \o Head(todo).body)

\* A walk over the statements of the module body only.
AstWalkTopLevel(tree) == tree

AstWalk(tree) == WalkFrom(tree)

\* The last segment of the dotted path instead of the first.
TopModuleLast(dotted) == dotted[Len(dotted)]

\* alias.name.split('.')[0]
TopModule(dotted) == dotted[1]

\* A check of the name the import binds (asname when there is one).
CheckedNameBound(alias) ==
    IF alias.asname # "" THEN <<alias.asname>> ELSE alias.name

\* line 141: the check reads alias.name, the dotted path of the imported
\* module; alias.asname is not looked at
CheckedName(alias) == alias.name

\* The loop body without its ast.Call branch.
NodeViolatesImportsOnly(node) ==
    IF node.kind = "Import"
    THEN \E i \in 1..Len(node.names) :
            TopModule(CheckedName(node.names[i])) \in FORBIDDEN_MODULES
    ELSE IF node.kind = "ImportFrom"
    THEN node.module # <<>> /\ TopModule(node.module) \in FORBIDDEN_MODULES
    ELSE FALSE

\* One iteration of the loop of check_script_security: does this node raise
\* SecurityError?
NodeViolates(node) ==
    IF node.kind = "Import"
    THEN \E i \in 1..Len(node.names) :
            TopModule(CheckedName(node.names[i])) \in FORBIDDEN_MODULES
    ELSE IF node.kind = "ImportFrom"
    THEN node.module # <<>> /\ TopModule(node.module) \in FORBIDDEN_MODULES
    ELSE IF node.kind = "Call"
    THEN node.func.fk = "Name" /\ node.func.id \in FORBIDDEN_BUILTINS
    ELSE FALSE

\* check_script_security: "syntax" when ast.parse raises SyntaxError,
\* "security" when the walk raises SecurityError, "ok" when it returns.
CheckScriptSecurity(src) ==
    IF src = SyntaxErr THEN "syntax"
    ELSE LET w == AstWalk(src)
         IN  IF \E i \in 1..Len(w) : NodeViolates(w[i]) THEN "security" ELSE "ok"

\* ------------------------------------------------------------ data model

\* JSON values are tagged triples, so a message can carry the name or the
\* number it is formatted from.
Val(tag, name, n) == [tag |-> tag, name |-> name, n |-> n]

NoVal == Val("", "", 0)

\* A value json.dumps raises TypeError on (a set, bytes, an object).
Unserializable == Val("unserializable", "", 0)

\* What a module function does with the params it is called with: the
\* functions of tests/test_bridge_timeout.py (quick_method, slow_method,
\* error_method, blocking_method), bridge_main.think (catches Exception and
\* returns a string), vision_gaze_webcam.on_action_toggle (emits an event,
\* then returns), and their variations.
Behaviours ==
    {"ret", "unser", "raise", "base", "block", "catch", "catchloop", "emit",
     "mutate"}

\* The method returns or raises on its own.
Halts(b) == b \in {"ret", "unser", "raise", "base", "emit", "mutate"}

\* The method wraps its work in try/except Exception.
Catches(b) == b \in {"catch", "catchloop"}

\* The method calls emit_event after its work.
Emits(b) == b = "emit"

\* The method rebinds globals of its module before it returns.
Mutates(b) == b = "mutate"

\* Request ids are opaque: a run is told apart only by which of its requests
\* share an id, so the k-th line carries one of the ids 1..k.
Ids(k) == 1..k

\* One line of standard input. kind: "blank" (empty or whitespace),
\* "badjson" (json.loads raises), "nonobject" (valid JSON, not an object),
\* "object". mtype is the JSON type of the "method" member: "str", "list"
\* (an unhashable value) or "null" (absent or null).
Line(kind, id, mtype, method, params) ==
    [kind |-> kind, id |-> id, mtype |-> mtype, method |-> method, params |-> params]

NoLine == Line("none", 0, "", "", "")

\* The lines the host may send as its k-th line.
Lines(k) ==
    {Line("blank", 0, "", "", ""), Line("badjson", 0, "", "", ""),
     Line("nonobject", 0, "", "", "")}
    \cup {Line("object", i, "str", "think", b) : i \in Ids(k), b \in Behaviours}
    \cup {Line("object", i, "str", m, "ret") :
            i \in Ids(k),
            m \in {"get_manifest", "execute", "helper", "on_action_go",
                   "on_action_Bad", "on_action_flag", "on_action_late"}}
    \cup {Line("object", i, mt, "", "ret") : i \in Ids(k), mt \in {"list", "null"}}

\* One line of the protocol stream. seq is the ordinal of the input line a
\* Response answers (0 for an Event); by is the writing thread.
OutLine(type, hasId, id, key, val, seq, by) ==
    [type |-> type, hasId |-> hasId, id |-> id, key |-> key, val |-> val,
     seq |-> seq, by |-> by]

NoResponse == OutLine("none", FALSE, 0, "", NoVal, 0, 0)

\* threads: the dispatch thread, one watchdog worker per input line, and the
\* background threads of the module
Main == 0

Workers == 1..MaxLines

BgThreads == (MaxLines + 1)..(MaxLines + MaxBg)

Threads == {Main} \cup Workers \cup BgThreads

\* emit_event's packet, written by thread t
EventLine(t) == OutLine("event", FALSE, 0, "data", Val("event", "", 0), 0, t)

\* EXIV_MANIFEST of vision_gaze_webcam.py
GazeManifest ==
    [id |-> "python.gaze",
     name |-> "Webcam Gaze Tracker",
     description |-> "Real-time eye tracking via webcam (MediaPipe Face Mesh). Click eye icon to toggle.",
     version |-> "1.0.0",
     category |-> "Tool",
     service_type |-> "Vision",
     tags |-> <<"#VISION", "#EYE-TRACKING", "#WEBCAM", "#MEDIAPIPE">>,
     required_permissions |-> <<"VisionRead", "CameraAccess">>,
     action_icon |-> "Eye",
     action_target |-> "api:toggle"]

\* The module has no EXIV_MANIFEST.
NoManifest == [id |-> ""]

\* The manifest a method binds to EXIV_MANIFEST later on.
LateManifest ==
    [id |-> "python.late", name |-> "Rebound", version |-> "2.0.0"]

\* A module namespace: the callables, the other attributes, the value of
\* EXIV_MANIFEST, the names rebound since the module body ran, and the
\* callables and the manifest that were there when the namespace was scanned
\* for actions.
Namespace(funcs, datas, manifest) ==
    [funcs |-> funcs, datas |-> datas, manifest |-> manifest,
     rebound |-> {}, scanned |-> {}, startup |-> [id |-> ""]]

\* What the module body leaves in the module namespace, in which the loader
\* has bound emit_event (line 180).
ModuleShapes ==
    {Namespace({"emit_event", "think", "setup", "helper", "on_action_Bad"},
               {"EXIV_MANIFEST"}, GazeManifest),
     Namespace({"emit_event", "think", "get_manifest"}, {"on_action_flag"},
               NoManifest)}

NoModule == Namespace({}, {}, NoManifest)

\* What setup() binds in the module namespace (global on_action_go).
SetupBinds == {"on_action_go"}

\* What a method that rebinds globals leaves: think and EXIV_MANIFEST are
\* bound to new objects, on_action_late is defined, on_action_go is deleted.
Mutated(ns) ==
    [ns EXCEPT !.funcs = (@ \ {"on_action_go"}) \cup {"on_action_late"},
               !.datas = @ \cup {"EXIV_MANIFEST"},
               !.manifest = LateManifest,
               !.rebound = {"think", "EXIV_MANIFEST"}]

\* One result_container for all the calls of the executor.
ContainerShared(k) == 1

\* line 78: every call of the executor creates the result_container its
\* worker closes over; the call for line k has container k.
ContainerOf(k) == k

\* result_container of call_method_with_timeout_threading
EmptyContainer == [hasResult |-> FALSE, success |-> "unset", val |-> NoVal]

\* No thread holds the lock.
NoThread == -1

\* The values PYTHON_METHOD_TIMEOUT_SECS is set to (8 when unset).
TimeoutSettings == {0, 8}

\* ------------------------------------------------------------ script path

\* A path is the sequence of its characters.
NoArg == <<>>

\* os.path.realpath(os.path.dirname(__file__)): the directory "/s"
allowed_dir == <<"/", "s">>

\* The script "/s/a", a regular file of the allowed directory.
TheScript == <<"/", "s", "/", "a">>

\* The paths the host may start the runtime with: the script, the allowed
\* directory itself, a path that leaves it through "..", a file of the
\* sibling directory "/sx", the symbolic link "/s/l", a file elsewhere.
ScriptPaths ==
    {TheScript,
     allowed_dir,
     <<"/", "s", "/", ".", ".", "/", "x">>,
     <<"/", "s", "x", "/", "a">>,
     <<"/", "s", "/", "l">>,
     <<"/", "x">>}

\* The symbolic links of the file system: "/s/l" points to "/x".
Symlinks == <<<<"s">>, <<"l">>>> :> <<"/", "x">>

\* The components of a path: the non-empty runs between separators.
RECURSIVE Split(_, _)
Split(str, cur) ==
    IF str = <<>> THEN (IF cur = <<>> THEN <<>> ELSE <<cur>>)
    ELSE IF Head(str) = "/"
    THEN (IF cur = <<>> THEN <<>> ELSE <<cur>>) \o Split(Tail(str), <<>>)
    ELSE Split(Tail(str), Append(cur, Head(str)))

RECURSIVE Join(_)
Join(segs) ==
    IF segs = <<>> THEN <<>> ELSE <<"/">> \o Head(segs) \o Join(Tail(segs))

\* os.path.realpath on components: "." is dropped, ".." drops the last
\* component, a symbolic link is replaced by its (absolute) target.
RECURSIVE ResolveFrom(_, _)
ResolveFrom(acc, rest) ==
    IF rest = <<>> THEN acc
    ELSE LET name == Head(rest)
             new == Append(acc, name)
         IN  IF name = <<".">> THEN ResolveFrom(acc, Tail(rest))
             ELSE IF name = <<".", ".">>
             THEN ResolveFrom(IF acc = <<>> THEN acc
                              ELSE SubSeq(acc, 1, Len(acc) - 1), Tail(rest))
             ELSE IF new \in DOMAIN Symlinks
             THEN ResolveFrom(<<>>, Split(Symlinks[new], <<>>) \o Tail(rest))
             ELSE ResolveFrom(new, Tail(rest))

\* os.path.realpath(script_path), line 119
Realpath(path) ==
    LET r == Join(ResolveFrom(<<>>, Split(path, <<>>)))
    IN  IF r = <<>> THEN <<"/">> ELSE r

\* str.startswith
StartsWith(str, prefix) ==
    Len(prefix) <= Len(str) /\ SubSeq(str, 1, Len(prefix)) = prefix

\* A prefix test without the separator.
AllowedPrefixNoSep == allowed_dir

\* allowed_dir + os.sep, line 121
AllowedPrefix == allowed_dir \o <<"/">>

\* The negation of the condition of line 121.
PathAllowed(script_path) ==
    LET real_path == Realpath(script_path)
    IN  StartsWith(real_path, AllowedPrefix) \/ real_path = allowed_dir

\* open() raises on it (IsADirectoryError): the path is a directory.
OpenRaises(script_path) == Realpath(script_path) = allowed_dir

VARIABLES
    argv,             \* sys.argv[1:]: the script path given, or NoArg
    source,           \* the syntax tree of the script file
    srcFlags,         \* what the script file contains (fixed at start)
    platform,         \* sys.platform: "posix" or "win32"
    timeout_secs,     \* DEFAULT_METHOD_TIMEOUT
    pc,               \* where the dispatch thread is
    exitCode,         \* the process exit status, -1 while it runs
    user_logic,       \* the namespace of the loaded module
    ALLOWED_METHODS,  \* CORE_METHODS | REGISTERED_ACTIONS
    stdin_read,       \* the input lines read so far
    request,          \* the line parsed last
    response,         \* the response dict of the current line
    alarm,            \* the SIGALRM timer and handler
    th,               \* per thread: phase, behaviour and pending outcome
    result_container, \* per watchdog call: the worker's result_container
    inv,              \* the current invocation: what happened first
    stdout_lock,      \* the holder of the writer lock
    original_stdout,  \* the protocol stream: the chunks written
    stderr,           \* the diagnostic channel: the kinds of messages
    moduleRan         \* code of the script has been executed

vars == <<argv, source, srcFlags, platform, timeout_secs, pc, exitCode,
          user_logic, ALLOWED_METHODS, stdin_read, request, response, alarm,
          th, result_container, inv, stdout_lock, original_stdout, stderr,
          moduleRan>>

nread == Len(stdin_read)

\* ------------------------------------------------- what a script contains

RECURSIVE NodesOf(_)
NodesOf(body) ==
    UNION {{body[i]} \cup NodesOf(body[i].body) : i \in 1..Len(body)}

\* Some import statement of the file names a forbidden module as its top
\* package: "import m", "import m.x", "import m as y", "from m import x".
ImportsForbidden(src) ==
    \E n \in NodesOf(src) :
        \/ /\ n.kind = "Import"
           /\ \E i \in 1..Len(n.names) : n.names[i].name[1] \in FORBIDDEN_MODULES
        \/ /\ n.kind = "ImportFrom"
           /\ n.module # <<>>
           /\ n.module[1] \in FORBIDDEN_MODULES

\* Some call of the file has a forbidden builtin as its bare-name callee.
CallsForbidden(src) ==
    \E n \in NodesOf(src) :
        n.kind = "Call" /\ n.func.fk = "Name" /\ n.func.id \in FORBIDDEN_BUILTINS

\* ------------------------------------------------------------------ start

\* it: the parity of the iterations of a method that loops
\* getattr(user_logic, name): the object the name is bound to, the one of
\* the module body or setup (gen 0) or one bound since (gen 1)
Callable(ns, name) == [name |-> name, gen |-> IF name \in ns.rebound THEN 1 ELSE 0]

\* No method has been called for the current line.
NoInvocation == [state |-> "none", val |-> NoVal, fn |-> [name |-> "", gen |-> 0]]

Thread(ph, beh, out, val) ==
    [ph |-> ph, beh |-> beh, out |-> out, val |-> val, it |-> 0]

Off == Thread("off", "", "", NoVal)

Init ==
    /\ argv \in {NoArg} \cup ScriptPaths
    \* the script holds one of Sources, the files elsewhere are empty
    /\ source \in IF argv = TheScript THEN Sources ELSE {<<>>}
    /\ srcFlags = [imports |-> ImportsForbidden(source),
                   calls |-> CallsForbidden(source)]
    /\ platform \in {"posix", "win32"}
    /\ timeout_secs \in TimeoutSettings
    /\ pc = "argv"
    /\ exitCode = -1
    /\ user_logic = NoModule
    /\ ALLOWED_METHODS = {}
    /\ stdin_read = <<>>
    /\ request = NoLine
    /\ response = NoResponse
    /\ alarm = [armed |-> FALSE, handler |-> "default"]
    /\ th = [t \in Threads |-> Off]
    /\ result_container = [k \in Workers |-> EmptyContainer]
    /\ inv = NoInvocation
    /\ stdout_lock = NoThread
    /\ original_stdout = <<>>
    /\ stderr = {}
    /\ moduleRan = FALSE

\* sys.exit(code), or an uncaught exception (code 1)
Exit(code, msgs) ==
    /\ pc' = "exited"
    /\ exitCode' = code
    /\ stderr' = stderr \cup msgs

\* main, lines 112-114
CheckArgv ==
    /\ pc = "argv"
    /\ IF argv = NoArg
       THEN Exit(1, {"usage"})
       ELSE pc' = "path" /\ UNCHANGED <<exitCode, stderr>>
    /\ UNCHANGED <<argv, source, srcFlags, platform, timeout_secs, user_logic,
                   ALLOWED_METHODS, stdin_read, request, response, alarm, th,
                   result_container, inv, stdout_lock, original_stdout, moduleRan>>

\* A startup that goes from the path check straight to the loader.
CheckPathSkipsAnalysis ==
    /\ pc = "path"
    /\ IF ~PathAllowed(argv)
       THEN Exit(1, {"outside"})
       ELSE pc' = "load" /\ UNCHANGED <<exitCode, stderr>>
    /\ UNCHANGED <<argv, source, srcFlags, platform, timeout_secs, user_logic,
                   ALLOWED_METHODS, stdin_read, request, response, alarm, th,
                   result_container, inv, stdout_lock, original_stdout, moduleRan>>

\* main, lines 116-123
CheckPath ==
    /\ pc = "path"
    /\ IF ~PathAllowed(argv)
       THEN Exit(1, {"outside"})
       ELSE pc' = "check" /\ UNCHANGED <<exitCode, stderr>>
    /\ UNCHANGED <<argv, source, srcFlags, platform, timeout_secs, user_logic,
                   ALLOWED_METHODS, stdin_read, request, response, alarm, th,
                   result_container, inv, stdout_lock, original_stdout, moduleRan>>

\* main, lines 166-173
SecurityGate ==
    /\ pc = "check"
    /\ LET verdict == CheckScriptSecurity(source)
       IN  IF OpenRaises(argv)
           THEN \* line 135: no except clause of lines 168-173 catches it
                Exit(1, {"traceback"})
           ELSE IF verdict = "security" THEN Exit(1, {"security"})
           ELSE IF verdict = "syntax" THEN Exit(1, {"syntax"})
           ELSE pc' = "load" /\ UNCHANGED <<exitCode, stderr>>
    /\ UNCHANGED <<argv, source, srcFlags, platform, timeout_secs, user_logic,
                   ALLOWED_METHODS, stdin_read, request, response, alarm, th,
                   result_container, inv, stdout_lock, original_stdout, moduleRan>>

\* main, lines 177-180: the module object is created and emit_event is bound
\* in its namespace before any of its code runs; module_from_spec raises when
\* the file name gives no loader (no suffix of a Python source file).
InjectEmitter ==
    /\ pc = "load"
    /\ \/ /\ Exit(1, {"load", "traceback"})
          /\ UNCHANGED user_logic
       \/ /\ user_logic' = Namespace({"emit_event"}, {}, NoManifest)
          /\ pc' = "exec"
          /\ UNCHANGED <<exitCode, stderr>>
    /\ UNCHANGED <<argv, source, srcFlags, platform, timeout_secs,
                   ALLOWED_METHODS, stdin_read, request, response, alarm, th,
                   result_container, inv, stdout_lock, original_stdout,
                   moduleRan>>

\* A loader that logs the exception of the module body and goes on with an
\* empty module.
LoadScriptLenient ==
    /\ pc = "exec"
    /\ moduleRan' = TRUE
    /\ source' = <<>>
    /\ pc' = "setup"
    /\ \/ /\ stderr' = stderr \cup {"load", "traceback"}
          /\ UNCHANGED user_logic
       \/ /\ user_logic' \in ModuleShapes
          /\ UNCHANGED stderr
    /\ UNCHANGED <<argv, srcFlags, platform, timeout_secs, exitCode,
                   ALLOWED_METHODS, stdin_read, request, response, alarm, th,
                   result_container, inv, stdout_lock, original_stdout>>

\* main, lines 181-185: the module body runs; it raises, or leaves a namespace
LoadScript ==
    /\ pc = "exec"
    /\ moduleRan' = TRUE
    /\ source' = <<>>
    /\ \/ /\ Exit(1, {"load", "traceback"})
          /\ UNCHANGED user_logic
       \/ /\ user_logic' \in ModuleShapes
          /\ pc' = "setup"
          /\ UNCHANGED <<exitCode, stderr>>
    /\ UNCHANGED <<argv, srcFlags, platform, timeout_secs, ALLOWED_METHODS,
                   stdin_read, request, response, alarm, th, result_container,
                   inv, stdout_lock, original_stdout>>

\* A dispatcher that calls every allowed name.
HasAttrAlways(ns, name) == TRUE

\* hasattr(user_logic, name)
HasAttr(ns, name) == name \in ns.funcs \cup ns.datas

\* A setup hook whose exception ends the process.
SetupHookFatal ==
    /\ pc = "setup"
    /\ IF HasAttr(user_logic, "setup")
       THEN /\ user_logic' = [user_logic EXCEPT !.funcs = @ \cup SetupBinds]
            /\ \E n \in 0..MaxBg :
                 th' = [t \in Threads |->
                          IF t \in BgThreads /\ t <= MaxLines + n
                          THEN Thread("bg", "", "", NoVal) ELSE th[t]]
            /\ \/ Exit(1, {"setup"})
               \/ pc' = "registry" /\ UNCHANGED <<exitCode, stderr>>
       ELSE pc' = "registry" /\ UNCHANGED <<user_logic, th, exitCode, stderr>>
    /\ UNCHANGED <<argv, source, srcFlags, platform, timeout_secs,
                   ALLOWED_METHODS, stdin_read, request, response,
                   alarm, result_container, inv, stdout_lock, original_stdout,
                   moduleRan>>

\* main, lines 188-192: setup() returns or raises; the background threads it
\* started go on running (vision_gaze_webcam.setup)
SetupHook ==
    /\ pc = "setup"
    /\ pc' = "registry"
    /\ IF HasAttr(user_logic, "setup")
       THEN /\ user_logic' = [user_logic EXCEPT !.funcs = @ \cup SetupBinds]
            /\ \E n \in 0..MaxBg :
                 th' = [t \in Threads |->
                          IF t \in BgThreads /\ t <= MaxLines + n
                          THEN Thread("bg", "", "", NoVal) ELSE th[t]]
            /\ \/ stderr' = stderr \cup {"setup"}
               \/ UNCHANGED stderr
       ELSE UNCHANGED <<user_logic, th, stderr>>
    /\ UNCHANGED <<argv, source, srcFlags, platform, timeout_secs, exitCode,
                   ALLOWED_METHODS, stdin_read, request, response,
                   alarm, result_container, inv, stdout_lock, original_stdout,
                   moduleRan>>

CORE_METHODS == {"think", "execute", "setup", "get_manifest"}

Lower ==
    {"a", "b", "c", "d", "e", "f", "g", "h", "i", "j", "k", "l", "m", "n", "o",
     "p", "q", "r", "s", "t", "u", "v", "w", "x", "y", "z"}

Digit == {"0", "1", "2", "3", "4", "5", "6", "7", "8", "9"}

\* The characters after the prefix "on_action_" of the attribute names that
\* start with it.
ActionSuffix ==
    [on_action_go |-> <<"g", "o">>, on_action_Bad |-> <<"B", "a", "d">>,
     on_action_flag |-> <<"f", "l", "a", "g">>,
     on_action_late |-> <<"l", "a", "t", "e">>]

\* attr_name.startswith("on_action_") and
\* re.match(r'^on_action_[a-z][a-z0-9_]*$', attr_name)
MatchesActionPattern(name) ==
    /\ name \in DOMAIN ActionSuffix
    /\ LET sfx == ActionSuffix[name]
       IN  /\ Len(sfx) >= 1
           /\ sfx[1] \in Lower
           /\ \A i \in 2..Len(sfx) : sfx[i] \in Lower \cup Digit \cup {"_"}

\* A scan that takes every callable whose name starts with "on_action_".
RegisteredActionsByPrefix(ns) == {a \in ns.funcs : a \in DOMAIN ActionSuffix}

\* main, lines 198-203
RegisteredActions(ns) ==
    {a \in ns.funcs \cup ns.datas : MatchesActionPattern(a) /\ a \in ns.funcs}

\* A dispatcher that scans the namespace for every request.
AllowedRescanned(ns, allowed) == CORE_METHODS \cup RegisteredActions(ns)

\* main, line 233: the set built at line 208
AllowedAt(ns, allowed) == allowed

\* main, lines 195-208
BuildRegistry ==
    /\ pc = "registry"
    /\ ALLOWED_METHODS' = CORE_METHODS \cup RegisteredActions(user_logic)
    /\ stderr' = IF RegisteredActions(user_logic) # {}
                 THEN stderr \cup {"registered"} ELSE stderr
    /\ pc' = "await"
    /\ user_logic' = [user_logic EXCEPT !.scanned = user_logic.funcs,
                                        !.startup = user_logic.manifest]
    /\ UNCHANGED <<argv, source, srcFlags, platform, timeout_secs, exitCode,
                   stdin_read, request, response, alarm, th,
                   result_container, inv, stdout_lock, original_stdout,
                   moduleRan>>

\* --------------------------------------------------------------- dispatch

\* main, lines 225-231: the default of the getattr call
DefaultManifest ==
    [id |-> "python.unnamed",
     name |-> "Unnamed Python Script",
     description |-> "No description provided.",
     version |-> "0.0.0",
     capabilities |-> <<"Reasoning">>]

\* A manifest as a value of a response: it is told from the others by its
\* id and the number of its members.
JsonObject(m) == Val("manifest", m.id, Cardinality(DOMAIN m))

\* A dispatcher that answers with the fixed manifest only.
ManifestDefaultOnly(ns) == JsonObject(DefaultManifest)

\* main, lines 225-231: getattr(user_logic, "EXIV_MANIFEST", default)
Manifest(ns) ==
    JsonObject(IF HasAttr(ns, "EXIV_MANIFEST") THEN ns.manifest
               ELSE DefaultManifest)

\* An except clause that keeps an id member.
CaughtResponseWithId(val, seq) ==
    OutLine("response", TRUE, 0, "error", val, seq, Main)

\* main, line 251: response = {"error": str(e)}
CaughtResponse(val, seq) == OutLine("response", FALSE, 0, "error", val, seq, Main)

\* main, lines 221 and 232-247: {"id": request_id} plus "result" or "error"
IdResponse(id, key, val, seq) == OutLine("response", TRUE, id, key, val, seq, Main)

\* main, lines 240-243: result_dict into the response
Translate(result_dict, resp) ==
    [resp EXCEPT !.key = IF result_dict.success THEN "result" ELSE "error",
                 !.val = result_dict.val]

Success(val) == [success |-> TRUE, val |-> val, tb |-> FALSE]

Failure(val, tb) == [success |-> FALSE, val |-> val, tb |-> tb]

\* f"Method execution timeout ({timeout_secs} seconds)", lines 62 and 95
TimeoutFailure(n) == Failure(Val("Method execution timeout", "seconds", n), FALSE)

\* A dispatcher without the built-in branch: get_manifest is a core name.
IsManifestRequestNever(line) == FALSE

\* main, line 224: method_name == "get_manifest"
IsManifestRequest(line) == line.mtype = "str" /\ line.method = "get_manifest"

\* A dispatcher that looks the name up in the module only.
IsAllowedAnyName(line, allowed) == line.mtype = "str"

\* main, line 233: method_name in ALLOWED_METHODS (None is in no set)
IsAllowed(line, allowed) == line.mtype = "str" /\ line.method \in allowed

\* main, lines 215-247 up to the call of the executor: what the line is
\* answered with, or that the executor is entered (go = "call") and with
\* which behaviour of the method; caught: the except clause of line 248 ran.
Route(line, ns, allowed, seq) ==
    IF line.kind = "badjson"
    THEN [go |-> "respond", caught |-> TRUE, beh |-> "",
          response |-> CaughtResponse(Val("JSONDecodeError", "", 0), seq)]
    ELSE IF line.kind = "nonobject"
    THEN [go |-> "respond", caught |-> TRUE, beh |-> "",
          response |-> CaughtResponse(Val("AttributeError", "get", 0), seq)]
    ELSE IF IsManifestRequest(line)
    THEN [go |-> "respond", caught |-> FALSE, beh |-> "",
          response |-> IdResponse(line.id, "result", Manifest(ns), seq)]
    ELSE IF line.mtype = "list"
    THEN [go |-> "respond", caught |-> TRUE, beh |-> "",
          response |-> CaughtResponse(Val("TypeError", "unhashable", 0), seq)]
    ELSE IF IsAllowed(line, allowed)
    THEN IF ~HasAttr(ns, line.method)
         THEN [go |-> "respond", caught |-> FALSE, beh |-> "",
               response |-> IdResponse(line.id, "error",
                                       Val("not found", line.method, 0), seq)]
         ELSE [go |-> "call", caught |-> FALSE,
               beh |-> IF line.method \in ns.funcs THEN line.params ELSE "raise",
               response |-> IdResponse(line.id, "", NoVal, seq)]
    ELSE [go |-> "respond", caught |-> FALSE, beh |-> "",
          response |-> IdResponse(line.id, "error",
                                  Val("not allowed", line.method, 0), seq)]

\* The response is complete: the dispatch thread goes to line 254.
Respond(r) ==
    /\ response' = r
    /\ pc' = "respond"

\* A loop without the test of line 212.
IsBlankNever(line) == FALSE

\* main, line 212: not line.strip()
IsBlank(line) == line.kind = "blank"

\* main, lines 211-238: one line is read; a blank one is skipped, the others
\* are answered or handed to the executor the platform selects (lines 106-109)
ReadLine ==
    /\ pc = "await"
    /\ nread < MaxLines
    /\ \E line \in Lines(nread + 1) :
         /\ stdin_read' = Append(stdin_read, line)
         /\ IF IsBlank(line)
            THEN UNCHANGED <<pc, request, response, alarm, th, result_container,
                             inv, stderr>>
            ELSE LET r == Route(line, user_logic,
                                AllowedAt(user_logic, ALLOWED_METHODS), nread + 1)
                 IN  /\ request' = IF line.kind = "badjson" THEN request ELSE line
                     /\ stderr' = IF r.caught THEN stderr \cup {"request error"}
                                  ELSE stderr
                     /\ IF r.go = "respond"
                        THEN /\ Respond(r.response)
                             /\ th' = [th EXCEPT ![Main].ph = "want"]
                             /\ inv' = NoInvocation
                             /\ UNCHANGED <<alarm, result_container>>
                        ELSE /\ response' = r.response
                             /\ inv' = [state |-> "running", val |-> NoVal,
                                         fn |-> Callable(user_logic, line.method)]
                             /\ IF platform = "win32"
                                THEN /\ pc' = "join"
                                     /\ th' = [th EXCEPT ![nread + 1] =
                                                 Thread("work", r.beh, "", NoVal)]
                                     /\ result_container' =
                                          [result_container EXCEPT
                                             ![ContainerOf(nread + 1)] = EmptyContainer]
                                     /\ UNCHANGED alarm
                                ELSE /\ pc' = "call"
                                     /\ th' = [th EXCEPT ![Main] =
                                                 Thread("work", r.beh, "", NoVal)]
                                     /\ alarm' = [armed |-> timeout_secs > 0,
                                                  handler |-> "timeout_handler"]
                                     /\ UNCHANGED result_container
    /\ UNCHANGED <<argv, source, srcFlags, platform, timeout_secs, exitCode,
                   user_logic, ALLOWED_METHODS, stdout_lock, original_stdout,
                   moduleRan>>

\* main, line 211: end of input ends the loop, main returns
EndOfInput ==
    /\ pc = "await"
    /\ pc' = "exited"
    /\ exitCode' = 0
    /\ UNCHANGED <<argv, source, srcFlags, platform, timeout_secs, user_logic,
                   ALLOWED_METHODS, stdin_read, request, response, alarm, th,
                   result_container, inv, stdout_lock, original_stdout, stderr,
                   moduleRan>>

\* ----------------------------------------------------- the method running

\* What the method ends with: it returns a value, raises an Exception, or
\* raises a BaseException that is not an Exception (SystemExit).
MethodOutcome(beh) ==
    IF beh = "raise" THEN [out |-> "raise", val |-> Val("boom", "", 0)]
    ELSE IF beh = "base" THEN [out |-> "base", val |-> NoVal]
    ELSE IF beh = "unser" THEN [out |-> "ret", val |-> Unserializable]
    ELSE IF beh = "catch" THEN [out |-> "ret", val |-> Val("caught", "", 0)]
    ELSE [out |-> "ret", val |-> Val("ok", "", 0)]

\* The method of thread t is at its last statement.
AtEnd(t) ==
    \/ th[t].ph = "work" /\ Halts(th[t].beh) /\ ~Emits(th[t].beh)
    \/ th[t].ph = "after"

\* The invocation the dispatch thread is waiting for ends or expires: inv
\* keeps what happened first.
Settle(what, val) ==
    inv' = IF inv.state = "running"
           THEN [inv EXCEPT !.state = what, !.val = val] ELSE inv

Settled(out) ==
    IF out = "ret" THEN "returned" ELSE IF out = "raise" THEN "raised" ELSE "died"

\* A method that does not end on its own goes round its loop once more
\* (blocking_method: while True: time.sleep(0.1)).
MethodLoop(t) ==
    /\ pc # "exited"
    /\ t = Main => pc = "call"
    /\ th[t].ph = "work"
    /\ ~Halts(th[t].beh)
    /\ th' = [th EXCEPT ![t].it = 1 - @]
    /\ UNCHANGED <<argv, source, srcFlags, platform, timeout_secs, pc, exitCode,
                   user_logic, ALLOWED_METHODS, stdin_read, request, response,
                   alarm, result_container, inv, stdout_lock, original_stdout,
                   stderr, moduleRan>>

\* The method calls emit_event (line 28: it waits for the lock).
MethodEmit(t) ==
    /\ pc # "exited"
    /\ t = Main => pc = "call"
    /\ th[t].ph = "work"
    /\ Emits(th[t].beh)
    /\ th' = [th EXCEPT ![t].ph = "want"]
    /\ UNCHANGED <<argv, source, srcFlags, platform, timeout_secs, pc, exitCode,
                   user_logic, ALLOWED_METHODS, stdin_read, request, response,
                   alarm, result_container, inv, stdout_lock, original_stdout,
                   stderr, moduleRan>>

\* call_method_with_timeout_signal, line 58: method(params) returns or raises
\* on the dispatch thread. A BaseException passes the except clauses of lines
\* 61-63 and of line 248: the finally clause runs and the process ends.
MethodEndMain ==
    /\ pc = "call"
    /\ AtEnd(Main)
    /\ LET o == MethodOutcome(th[Main].beh)
       IN  /\ Settle(Settled(o.out), o.val)
           /\ th' = [th EXCEPT ![Main] = Thread("off", "", o.out, o.val)]
           /\ user_logic' = IF Mutates(th[Main].beh) THEN Mutated(user_logic)
                            ELSE user_logic
           /\ IF o.out = "base"
              THEN /\ Exit(1, {"traceback"})
                   /\ alarm' = [alarm EXCEPT !.handler = "default"]
              ELSE /\ pc' = IF o.out = "ret" THEN "sig_returned" ELSE "sig_except"
                   /\ UNCHANGED <<exitCode, stderr, alarm>>
    /\ UNCHANGED <<argv, source, srcFlags, platform, timeout_secs,
                   ALLOWED_METHODS, stdin_read, request, response,
                   result_container, stdout_lock, original_stdout, moduleRan>>

\* call_method_with_timeout_threading.target, line 82: method(params) returns
\* or raises on worker k
MethodEndWorker(k) ==
    /\ pc # "exited"
    /\ AtEnd(k)
    /\ LET o == MethodOutcome(th[k].beh)
       IN  /\ IF k = nread /\ pc \in {"join", "alive_check"}
              THEN Settle(Settled(o.out), o.val)
              ELSE UNCHANGED inv
           /\ th' = [th EXCEPT ![k] = Thread("ending", th[k].beh, o.out, o.val)]
           /\ user_logic' = IF Mutates(th[k].beh) THEN Mutated(user_logic)
                            ELSE user_logic
    /\ UNCHANGED <<argv, source, srcFlags, platform, timeout_secs, pc, exitCode,
                   ALLOWED_METHODS, stdin_read, request, response,
                   alarm, result_container, stdout_lock, original_stdout,
                   stderr, moduleRan>>

\* ------------------------------------------------------ signal executor

\* An executor that reports the timeout and lets the method run on.
TimedOutKeepsRunning(resp, msgs) ==
    /\ Respond(resp)
    /\ th' = [th EXCEPT ![Main].ph = "want"]
    /\ stdout_lock' = IF stdout_lock = Main THEN NoThread ELSE stdout_lock
    /\ stderr' = stderr \cup msgs

\* lines 61-62 and 67 (or the handler's exception leaving the function): the
\* executor is left with the timeout outcome, the lock of an interrupted
\* emit_event is released by its with statement
TimedOut(resp, msgs) ==
    /\ Respond(resp)
    /\ th' = [th EXCEPT ![Main] = Thread("want", "", "", NoVal)]
    /\ stdout_lock' = IF stdout_lock = Main THEN NoThread ELSE stdout_lock
    /\ stderr' = stderr \cup msgs

\* timeout_handler, lines 41-43: SIGALRM is delivered to the dispatch thread,
\* between two of its bytecodes, and raises TimeoutError where it stands. A
\* write() call is one bytecode: the handler does not run inside it.
AlarmFire ==
    /\ alarm.armed
    /\ alarm.handler = "timeout_handler"
    /\ pc \in {"call", "sig_returned", "sig_except"}
    /\ th[Main].ph # "half"
    /\ Settle("expired", NoVal)
    /\ IF pc = "call" /\ th[Main].ph = "work" /\ Catches(th[Main].beh)
       THEN \* the method's own except Exception clause swallows it
            /\ alarm' = [alarm EXCEPT !.armed = FALSE]
            /\ th' = [th EXCEPT ![Main].ph =
                        IF th[Main].beh = "catch" THEN "after" ELSE "work"]
            /\ UNCHANGED <<pc, response, stdout_lock, stderr>>
       ELSE IF pc = "sig_except"
       THEN \* raised inside the except clause of line 63: it leaves the
            \* executor and is caught at line 248
            /\ alarm' = [armed |-> FALSE, handler |-> "default"]
            /\ TimedOut(CaughtResponse(Val("Method execution timeout", "", 0),
                                       response.seq),
                        {"request error"})
       ELSE /\ alarm' = [armed |-> FALSE, handler |-> "default"]
            /\ TimedOut(Translate(TimeoutFailure(timeout_secs), response), {})
    /\ UNCHANGED <<argv, source, srcFlags, platform, timeout_secs, exitCode,
                   user_logic, ALLOWED_METHODS, stdin_read, request,
                   result_container, original_stdout, moduleRan>>

\* An executor that writes the result to the stream itself.
SigCancelReturnWrites ==
    /\ pc = "sig_returned"
    /\ alarm' = [armed |-> FALSE, handler |-> "default"]
    /\ Respond(Translate(Success(th[Main].val), response))
    /\ th' = [th EXCEPT ![Main] = Thread("want", "", "", NoVal)]
    /\ original_stdout' =
         Append(original_stdout,
                [line |-> Translate(Success(th[Main].val), response),
                 part |-> 2])
    /\ UNCHANGED <<argv, source, srcFlags, platform, timeout_secs, exitCode,
                   user_logic, ALLOWED_METHODS, stdin_read, request,
                   result_container, inv, stdout_lock, stderr, moduleRan>>

\* lines 59-60, 67 and 240-241
SigCancelReturn ==
    /\ pc = "sig_returned"
    /\ alarm' = [armed |-> FALSE, handler |-> "default"]
    /\ Respond(Translate(Success(th[Main].val), response))
    /\ th' = [th EXCEPT ![Main] = Thread("want", "", "", NoVal)]
    /\ UNCHANGED <<argv, source, srcFlags, platform, timeout_secs, exitCode,
                   user_logic, ALLOWED_METHODS, stdin_read, request,
                   result_container, inv, stdout_lock, original_stdout, stderr,
                   moduleRan>>

\* An except clause without the signal.alarm(0) of line 64.
SigCancelExceptKeepsAlarm ==
    /\ pc = "sig_except"
    /\ alarm' = [alarm EXCEPT !.handler = "default"]
    /\ Respond(Translate(Failure(th[Main].val, TRUE), response))
    /\ th' = [th EXCEPT ![Main] = Thread("want", "", "", NoVal)]
    /\ stderr' = stderr \cup {"traceback"}
    /\ UNCHANGED <<argv, source, srcFlags, platform, timeout_secs, exitCode,
                   user_logic, ALLOWED_METHODS, stdin_read, request,
                   result_container, inv, stdout_lock, original_stdout,
                   moduleRan>>

\* lines 63-65, 67 and 243-245
SigCancelExcept ==
    /\ pc = "sig_except"
    /\ alarm' = [armed |-> FALSE, handler |-> "default"]
    /\ Respond(Translate(Failure(th[Main].val, TRUE), response))
    /\ th' = [th EXCEPT ![Main] = Thread("want", "", "", NoVal)]
    /\ stderr' = stderr \cup {"traceback"}
    /\ UNCHANGED <<argv, source, srcFlags, platform, timeout_secs, exitCode,
                   user_logic, ALLOWED_METHODS, stdin_read, request,
                   result_container, inv, stdout_lock, original_stdout,
                   moduleRan>>

\* ---------------------------------------------------- watchdog executor

\* target, lines 82-87: the worker fills its result_container and ends. A
\* BaseException ends the thread with the container as it is.
WorkerStore(k) ==
    /\ pc # "exited"
    /\ th[k].ph = "ending"
    /\ result_container' =
         [result_container EXCEPT ![ContainerOf(k)] =
            IF th[k].out = "ret"
            THEN [hasResult |-> TRUE, success |-> "true", val |-> th[k].val]
            ELSE IF th[k].out = "raise"
            THEN [hasResult |-> FALSE, success |-> "false", val |-> th[k].val]
            ELSE @]
    /\ th' = [th EXCEPT ![k].ph = "dead"]
    /\ UNCHANGED <<argv, source, srcFlags, platform, timeout_secs, pc, exitCode,
                   user_logic, ALLOWED_METHODS, stdin_read, request, response,
                   alarm, inv, stdout_lock, original_stdout, stderr, moduleRan>>

\* lines 97-103: the outcome read from a result_container
ContainerOutcome(c) ==
    IF c.success = "true" THEN Success(c.val)
    ELSE IF c.success = "false" THEN Failure(c.val, TRUE)
    ELSE Failure(Val("Unknown error", "", 0), FALSE)

\* lines 93-103: thread.is_alive() decides between the timeout outcome and
\* the container
WatchdogOutcome(alive, c, n) ==
    IF alive THEN TimeoutFailure(n) ELSE ContainerOutcome(c)

\* lines 93-103 and 240-245 on the dispatch thread
FinishWatchdog ==
    LET o == WatchdogOutcome(th[nread].ph # "dead",
                             result_container[ContainerOf(nread)],
                             timeout_secs)
    IN  /\ Respond(Translate(o, response))
        /\ th' = [th EXCEPT ![Main] = Thread("want", "", "", NoVal)]
        /\ stderr' = IF o.tb THEN stderr \cup {"traceback"} ELSE stderr

\* line 91: join returns because the worker has ended
JoinReturn ==
    /\ pc = "join"
    /\ th[nread].ph = "dead"
    /\ FinishWatchdog
    /\ UNCHANGED <<argv, source, srcFlags, platform, timeout_secs, exitCode,
                   user_logic, ALLOWED_METHODS, stdin_read, request, alarm,
                   result_container, inv, stdout_lock, original_stdout,
                   moduleRan>>

\* A watchdog that ends the worker when the join times out.
JoinTimeoutKills ==
    /\ pc = "join"
    /\ th[nread].ph # "dead"
    /\ pc' = "alive_check"
    /\ Settle("expired", NoVal)
    /\ th' = [th EXCEPT ![nread].ph = "dead"]
    /\ UNCHANGED <<argv, source, srcFlags, platform, timeout_secs, exitCode,
                   user_logic, ALLOWED_METHODS, stdin_read, request, response,
                   alarm, result_container, stdout_lock, original_stdout,
                   stderr, moduleRan>>

\* line 91: join returns because timeout_secs have elapsed
JoinTimeout ==
    /\ pc = "join"
    /\ th[nread].ph # "dead"
    /\ pc' = "alive_check"
    /\ Settle("expired", NoVal)
    /\ UNCHANGED <<argv, source, srcFlags, platform, timeout_secs, exitCode,
                   user_logic, ALLOWED_METHODS, stdin_read, request, response,
                   alarm, th, result_container, stdout_lock, original_stdout,
                   stderr, moduleRan>>

\* line 93 after a join that timed out
AliveCheck ==
    /\ pc = "alive_check"
    /\ FinishWatchdog
    /\ UNCHANGED <<argv, source, srcFlags, platform, timeout_secs, exitCode,
                   user_logic, ALLOWED_METHODS, stdin_read, request, alarm,
                   result_container, inv, stdout_lock, original_stdout,
                   moduleRan>>

\* ------------------------------------------------- the protocol stream

\* A worker that writes the answer of its own request when it gets there.
LineOfLateAnswer(t) ==
    IF t = Main /\ pc = "respond" THEN response
    ELSE IF t \in Workers
    THEN IdResponse(stdin_read[t].id, "result", Val("ok", "", 0), t)
    ELSE EventLine(t)

\* The line thread t writes: the dispatch thread's response (line 255), or
\* emit_event's packet (lines 29-34).
LineOf(t) == IF t = Main /\ pc = "respond" THEN response ELSE EventLine(t)

Chunk(line, part) == [line |-> line, part |-> part]

\* json.dumps raises TypeError
DumpsRaises(line) == line.val = Unserializable

\* A background thread of the module calls emit_event.
BgEmit(b) ==
    /\ pc # "exited"
    /\ th[b].ph = "bg"
    /\ th' = [th EXCEPT ![b].ph = "want"]
    /\ UNCHANGED <<argv, source, srcFlags, platform, timeout_secs, pc, exitCode,
                   user_logic, ALLOWED_METHODS, stdin_read, request, response,
                   alarm, result_container, inv, stdout_lock, original_stdout,
                   stderr, moduleRan>>

\* An emit_event that writes without taking the lock.
CanAcquireResponseOnly(t) ==
    (t = Main /\ pc = "respond") => stdout_lock = NoThread

\* "with stdout_lock:", lines 28 and 254: the thread gets the lock when no
\* thread holds it
CanAcquire(t) == stdout_lock = NoThread

Acquire(t) ==
    /\ pc # "exited"
    /\ th[t].ph = "want"
    /\ CanAcquire(t)
    /\ stdout_lock' = t
    /\ th' = [th EXCEPT ![t].ph = "locked"]
    /\ UNCHANGED <<argv, source, srcFlags, platform, timeout_secs, pc, exitCode,
                   user_logic, ALLOWED_METHODS, stdin_read, request, response,
                   alarm, result_container, inv, original_stdout, stderr,
                   moduleRan>>

\* line 255 with a response json.dumps cannot serialize: TypeError leaves the
\* with statement (the lock is released) and main, uncaught
ResponseDumpsRaises ==
    /\ pc = "respond"
    /\ th[Main].ph = "locked"
    /\ DumpsRaises(response)
    /\ stdout_lock' = NoThread
    /\ th' = [th EXCEPT ![Main] = Off]
    /\ Exit(1, {"traceback"})
    /\ UNCHANGED <<argv, source, srcFlags, platform, timeout_secs, user_logic,
                   ALLOWED_METHODS, stdin_read, request, response, alarm,
                   result_container, inv, original_stdout, moduleRan>>

\* lines 34 and 255: write() puts the line on the stream, the first part
WriteFirst(t) ==
    /\ pc # "exited"
    /\ th[t].ph = "locked"
    /\ ~DumpsRaises(LineOf(t))
    /\ original_stdout' = Append(original_stdout, Chunk(LineOf(t), 1))
    /\ th' = [th EXCEPT ![t].ph = "half"]
    /\ UNCHANGED <<argv, source, srcFlags, platform, timeout_secs, pc, exitCode,
                   user_logic, ALLOWED_METHODS, stdin_read, request, response,
                   alarm, result_container, inv, stdout_lock, stderr, moduleRan>>

\* The lock a thread gives back when it leaves its with statement.
Released(t) == IF stdout_lock = t THEN NoThread ELSE stdout_lock

\* lines 34-35 and 255-256: the rest of the line and the newline, flush(),
\* and the end of the with statement; the dispatch thread goes back to line
\* 211, a method goes on after emit_event
WriteRest(t) ==
    /\ pc # "exited"
    /\ th[t].ph = "half"
    /\ original_stdout' = Append(original_stdout, Chunk(LineOf(t), 2))
    /\ stdout_lock' = Released(t)
    /\ IF t = Main /\ pc = "respond"
       THEN pc' = "await" /\ th' = [th EXCEPT ![t] = Off]
       ELSE /\ th' = [th EXCEPT ![t].ph = IF t \in BgThreads THEN "bgdone" ELSE "after"]
            /\ UNCHANGED pc
    /\ UNCHANGED <<argv, source, srcFlags, platform, timeout_secs, exitCode,
                   user_logic, ALLOWED_METHODS, stdin_read, request, response,
                   alarm, result_container, inv, stderr, moduleRan>>

\* ------------------------------------------------------- specification

Next ==
    \/ CheckArgv
    \/ CheckPath
    \/ SecurityGate
    \/ InjectEmitter
    \/ LoadScript
    \/ SetupHook
    \/ BuildRegistry
    \/ ReadLine
    \/ EndOfInput
    \/ \E t \in {Main} \cup Workers : MethodLoop(t)
    \/ \E t \in {Main} \cup Workers : MethodEmit(t)
    \/ MethodEndMain
    \/ \E k \in Workers : MethodEndWorker(k)
    \/ AlarmFire
    \/ SigCancelReturn
    \/ SigCancelExcept
    \/ \E k \in Workers : WorkerStore(k)
    \/ JoinReturn
    \/ JoinTimeout
    \/ AliveCheck
    \/ \E b \in BgThreads : BgEmit(b)
    \/ \E t \in Threads : Acquire(t)
    \/ ResponseDumpsRaises
    \/ \E t \in Threads : WriteFirst(t)
    \/ \E t \in Threads : WriteRest(t)

Spec == Init /\ [][Next]_vars

\* Scheduling: the kernel delivers an armed alarm and ends a bounded join,
\* every thread that can take its next step takes it, a method that ends on
\* its own ends, and a free lock is given to a thread waiting for it. Nothing
\* makes the host send a line, close its input or a background thread emit.
FairSpec ==
    /\ Spec
    /\ WF_vars(AlarmFire)
    /\ WF_vars(JoinTimeout)
    /\ WF_vars(JoinReturn \/ AliveCheck \/ SigCancelReturn \/ SigCancelExcept)
    /\ WF_vars(MethodEndMain)
    /\ WF_vars(\E t \in {Main} \cup Workers : MethodLoop(t))
    /\ WF_vars(\E t \in {Main} \cup Workers : MethodEmit(t))
    /\ WF_vars(\E k \in Workers : MethodEndWorker(k) \/ WorkerStore(k))
    /\ WF_vars(ResponseDumpsRaises)
    /\ \A t \in Threads : SF_vars(Acquire(t))
    /\ \A t \in Threads : WF_vars(WriteFirst(t) \/ WriteRest(t))

\* ------------------------------------------------------------- properties

\* The responses on the protocol stream, in the order written (a line is
\* there once its last part is).
Responses ==
    SelectSeq(original_stdout, LAMBDA c : c.part = 2 /\ c.line.type = "response")

\* The dispatch thread is inside the Timeout Executor.
Dispatching == pc \in {"call", "sig_returned", "sig_except", "join", "alive_check"}

\* The thread is inside "serialize, write, flush".
InWriteSection(t) == th[t].ph \in {"locked", "half"}

\* The forbidden import of the script sits inside a function body.
NestedForbiddenImport ==
    \E n \in NodesOf(source) :
        /\ n.kind = "FunctionDef"
        /\ ImportsForbidden(n.body)

NestedForbiddenCall ==
    \E n \in NodesOf(source) :
        /\ n.kind = "FunctionDef"
        /\ CallsForbidden(n.body)

\* C1: a script that imports a forbidden module (import or from-import, at
\* any depth) never gets past the security gate: none of its code runs, no
\* input line is read, nothing is written to the protocol stream, the
\* process can always take its next startup step, and it exits with status 1
\* and a security diagnostic.
C1_ForbiddenImportExitsBeforeLoad ==
    srcFlags.imports =>
        /\ ~moduleRan
        /\ stdin_read = <<>>
        /\ original_stdout = <<>>
        /\ pc \in {"argv", "path", "check", "exited"}
        /\ pc # "exited" => ENABLED (CheckArgv \/ CheckPath \/ SecurityGate)
        /\ pc = "exited" => exitCode = 1 /\ "security" \in stderr

C1_Witness ==
    /\ srcFlags.imports
    /\ NestedForbiddenImport
    /\ ~CallsForbidden(source)
    /\ pc = "exited"
    /\ exitCode = 1

\* C2: a script with a bare-name call of a forbidden builtin, reached at run
\* time or not, is rejected by the analyzer before any of its code runs; code
\* of a script only ever runs after the analysis has finished and found no
\* such call.
C2_ForbiddenCallRejectedBeforeLoad ==
    /\ srcFlags.calls =>
          /\ ~moduleRan
          /\ pc \in {"argv", "path", "check", "exited"}
          /\ pc = "exited" => exitCode = 1 /\ "security" \in stderr
    /\ moduleRan => ~srcFlags.calls /\ pc \notin {"argv", "path", "check"}

C2_Witness ==
    /\ srcFlags.calls
    /\ ~srcFlags.imports
    /\ NestedForbiddenCall
    /\ Len(source) = 1
    /\ pc = "exited"
    /\ "security" \in stderr

\* The response of the current line has been built from the outcome of an
\* invocation.
Answered == pc = "respond" /\ inv.state # "none"

\* C3: when the timeout elapsed before the method had returned, the response
\* is {id, error: "Method execution timeout (n seconds)"} with the request's
\* id and the configured n, and no result.
C3_TimeoutAlwaysReported ==
    (Answered /\ inv.state = "expired") =>
        response = IdResponse(request.id, "error",
                              Val("Method execution timeout", "seconds", timeout_secs),
                              nread)

\* C4: with a positive timeout configured, a dispatch thread that has
\* entered the Timeout Executor always leaves it again.
C4_DispatchAlwaysAnswered ==
    [](Dispatching /\ timeout_secs > 0 => <>(~Dispatching))

\* C5: when the method returned the value v before the timeout elapsed, the
\* response is {id, result: v}.
C5_ReturnInTimeIsSuccess ==
    (Answered /\ inv.state = "returned") =>
        response = IdResponse(request.id, "result", inv.val, nread)

\* C6: every response written for a line that parsed as a JSON object has an
\* id member, equal to the id of that line.
C6_IdEchoed ==
    \A i \in 1..Len(original_stdout) :
        LET l == original_stdout[i].line
        IN  (l.type = "response" /\ stdin_read[l.seq].kind = "object") =>
                l.hasId /\ l.id = stdin_read[l.seq].id

\* C7: the responses on the protocol stream answer lines that were read, in
\* the order in which those were read, and a line is read only when every
\* line read before it that is not blank has its response on the stream.
C7_ResponsesInReadOrder ==
    /\ \A i \in 1..Len(Responses) :
          /\ Responses[i].line.seq \in 1..nread
          /\ stdin_read[Responses[i].line.seq].kind # "blank"
          /\ \A j \in 1..Len(Responses) :
                i < j => Responses[i].line.seq < Responses[j].line.seq
    /\ pc = "await" =>
          \A k \in 1..nread :
              stdin_read[k].kind # "blank" =>
                  \E i \in 1..Len(Responses) : Responses[i].line.seq = k

\* The first request timed out under the watchdog, its worker is still
\* running its method, and the second request has been answered.
C7_Witness ==
    /\ platform = "win32"
    /\ Len(Responses) = 2
    /\ Responses[1].line.val.tag = "Method execution timeout"
    /\ Responses[2].line.key = "result"
    /\ Responses[1].line.id # Responses[2].line.id
    /\ th[1].ph = "work"

\* The number of responses on the stream that answer line k.
ResponsesTo(k) ==
    Cardinality({i \in 1..Len(Responses) : Responses[i].line.seq = k})

\* No request of the input makes its method raise a BaseException.
NoBaseException == \A k \in 1..nread : stdin_read[k].params # "base"

\* C8: whenever the dispatch thread is about to read a line, or the process
\* has ended, every line read that is not blank has exactly one response on
\* the stream.
C8_ExactlyOneResponsePerLine ==
    (pc \in {"await", "exited"} /\ NoBaseException) =>
        \A k \in 1..nread :
            stdin_read[k].kind # "blank" => ResponsesTo(k) = 1

\* C9: once lines are being read, the process ends only at end of input,
\* with exit status 0.
C9_OnlyEndOfInputEndsLoop ==
    (pc = "exited" /\ nread > 0 /\ NoBaseException) => exitCode = 0

\* C10: at most one thread is inside serialize-write-flush, and the parts
\* of every line on the protocol stream are next to each other: a first part
\* is followed by the rest of the same line, or is the end of the stream
\* while its writer is still in the section.
C10_WritesMutuallyExclusive ==
    /\ Cardinality({t \in Threads : InWriteSection(t)}) <= 1
    /\ \A t \in Threads : InWriteSection(t) <=> stdout_lock = t
    /\ \A i \in 1..Len(original_stdout) :
          LET c == original_stdout[i]
          IN  IF c.part = 1
              THEN IF i < Len(original_stdout)
                   THEN original_stdout[i + 1] = Chunk(c.line, 2)
                   ELSE th[c.line.by].ph = "half"
              ELSE i > 1 /\ original_stdout[i - 1] = Chunk(c.line, 1)

\* A background thread is in the middle of writing an Event while a watchdog
\* worker waits to emit one and the dispatch thread waits to write its
\* Response.
C10_Witness ==
    /\ \E b \in BgThreads : th[b].ph = "half"
    /\ \E k \in Workers : th[k].ph = "want"
    /\ pc = "respond"
    /\ th[Main].ph = "want"

\* The input line a response answers was not a JSON object.
Malformed(l) == stdin_read[l.seq].kind \in {"badjson", "nonobject"}

\* C11: every line on the protocol stream is an Event without id, or a
\* Response {id, result} or {id, error}, or the Response {error} without id
\* of a malformed line; no line carries a traceback or a log message.
C11_OnlyResponsesAndEvents ==
    \A i \in 1..Len(original_stdout) :
        LET l == original_stdout[i].line
        IN  /\ l.val.tag \notin {"traceback", "request error", "registered", "setup"}
            /\ \/ l.type = "event" /\ ~l.hasId /\ l.key = "data"
               \/ /\ l.type = "response"
                  /\ l.key \in {"result", "error"}
                  /\ l.hasId \/ (l.key = "error" /\ Malformed(l))

\* The fixed core set and the action names discovered at load: callables of
\* the module named on_action_ followed by a lower-case letter and then
\* lower-case letters, digits and underscores.
AllowedNames ==
    {"think", "execute", "setup", "get_manifest"}
    \cup (user_logic.scanned \cap {"on_action_go", "on_action_flag", "on_action_late"})

\* The request's method is a name (or absent) that is not get_manifest and
\* not an allowed name.
NotAllowedName(l) ==
    /\ l.kind = "object"
    /\ l.mtype \in {"str", "null"}
    /\ l.mtype = "str" => l.method \notin AllowedNames

\* The response "Method '<name>' is not allowed" to line k.
NotAllowedResponse(k) ==
    IdResponse(stdin_read[k].id, "error",
               Val("not allowed", stdin_read[k].method, 0), k)

\* C12: a request whose method name is not get_manifest, not a core name
\* and not a discovered action is answered {id, error: "Method '<name>' is
\* not allowed"}; the dispatch thread does not enter the Timeout Executor
\* for it and no thread runs a module function for it, also when the module
\* defines a callable of that name.
C12_NotAllowedNeverInvoked ==
    /\ \A i \in 1..Len(original_stdout) :
          LET l == original_stdout[i].line
          IN  (l.type = "response" /\ NotAllowedName(stdin_read[l.seq])) =>
                  l = NotAllowedResponse(l.seq)
    /\ (nread > 0 /\ NotAllowedName(stdin_read[nread])) =>
          /\ ~Dispatching
          /\ inv.state = "none"
          /\ th[nread].ph = "off"
          /\ th[Main].ph \in {"off", "want", "locked", "half"}
          /\ pc = "respond" => response = NotAllowedResponse(nread)

\* A callable of the module that is neither core nor an action has been
\* requested and refused, and so has a callable whose name only starts like
\* an action's.
C12_Witness ==
    /\ Len(Responses) = 2
    /\ Responses[1].line.val = Val("not allowed", "helper", 0)
    /\ Responses[2].line.val = Val("not allowed", "on_action_Bad", 0)
    /\ {"helper", "on_action_Bad"} \subseteq user_logic.funcs

\* The request's method is an allowed name the module has no attribute for
\* (in the state the predicate is evaluated in).
AllowedButMissing(l) ==
    /\ l.kind = "object"
    /\ l.mtype = "str"
    /\ l.method # "get_manifest"
    /\ l.method \in AllowedNames
    /\ l.method \notin user_logic.funcs \cup user_logic.datas

\* The response "Method '<name>' not found in user script" to line k.
NotFoundResponse(k) ==
    IdResponse(stdin_read[k].id, "error",
               Val("not found", stdin_read[k].method, 0), k)

\* No method has rebound a global of the module since it was loaded.
NamespaceAsLoaded == user_logic.rebound = {}

\* The step that reads a line whose method is an allowed name the module has
\* no attribute for at that moment builds the "not found" response and starts
\* no invocation.
MissingAtDispatchNotFound ==
    (nread' = nread + 1 /\ AllowedButMissing(stdin_read'[nread + 1])) =>
        /\ pc' = "respond"
        /\ response' = IdResponse(stdin_read'[nread + 1].id, "error",
                                  Val("not found", stdin_read'[nread + 1].method, 0),
                                  nread + 1)
        /\ inv'.state = "none"
        /\ alarm' = alarm
        /\ \A k \in Workers : th'[k] = th[k]

\* While a "not found" line is the current one: no invocation, one response,
\* and the process ends only at end of input.
MissingWhileHandled ==
    (nread > 0 /\ NamespaceAsLoaded /\ AllowedButMissing(stdin_read[nread])) =>
          /\ pc \in {"respond", "await", "exited"}
          /\ inv.state = "none"
          /\ th[nread].ph = "off"
          /\ pc = "respond" =>
                /\ response = NotFoundResponse(nread)
                /\ ENABLED (Acquire(Main) \/ WriteFirst(Main) \/ WriteRest(Main))
                   \/ stdout_lock \notin {Main, NoThread}
          /\ pc = "exited" => exitCode = 0
          /\ pc \in {"await", "exited"} => ResponsesTo(nread) = 1

\* Every response on the stream to a "not found" line is the "not found" one.
MissingOnStream ==
    \A i \in 1..Len(original_stdout) :
        LET l == original_stdout[i].line
        IN  (/\ l.type = "response"
             /\ NamespaceAsLoaded
             /\ AllowedButMissing(stdin_read[l.seq])) =>
                l = NotFoundResponse(l.seq)

\* C13: a request whose method is an allowed name that is not an attribute
\* of the loaded module when the request is dispatched is answered {id,
\* error: "Method '<name>' not found in user script"}; the Timeout Executor
\* is not entered for it, and once the response is written the dispatch
\* thread is back at reading the next line.
C13_MissingMethodNotFound ==
    /\ [][MissingAtDispatchNotFound]_vars
    /\ [](MissingOnStream /\ MissingWhileHandled)

\* The core name execute, which the module does not define, was requested
\* first and answered; the next request has been read and answered too.
C13_Witness ==
    /\ Len(Responses) = 2
    /\ Responses[1].line.val = Val("not found", "execute", 0)
    /\ Responses[2].line.key = "result"
    /\ Responses[2].line.seq = 2

\* The line is a request whose method is the name get_manifest.
AsksManifest(l) ==
    l.kind = "object" /\ l.mtype = "str" /\ l.method = "get_manifest"

\* The response {id, result: manifest} to line k.
ManifestResponse(k) ==
    IdResponse(stdin_read[k].id, "result", Manifest(user_logic), k)

\* C14: a get_manifest request is answered {id, result: manifest} whatever
\* else is going on; the dispatch thread does not enter the Timeout Executor
\* for it, no alarm is armed, no worker is started and no function of the
\* module runs for it, so its response is never an error or a timeout.
C14_ManifestAnsweredDirectly ==
    /\ \A i \in 1..Len(original_stdout) :
          LET l == original_stdout[i].line
          IN  (l.type = "response" /\ AsksManifest(stdin_read[l.seq])) =>
                  /\ l.key = "result"
                  /\ l.val.tag = "manifest"
                  /\ l.hasId /\ l.id = stdin_read[l.seq].id
    /\ (nread > 0 /\ AsksManifest(stdin_read[nread])) =>
          /\ ~Dispatching
          /\ inv.state = "none"
          /\ ~alarm.armed
          /\ th[nread].ph = "off"
          /\ th[Main].ph \in {"off", "want", "locked", "half"}
          /\ pc = "respond" =>
                response \in {[ManifestResponse(nread) EXCEPT !.val = JsonObject(m)] :
                                m \in {user_logic.manifest, GazeManifest,
                                       DefaultManifest}}

\* The module defines a function get_manifest; the first request timed out
\* under the watchdog and its worker is still running when the get_manifest
\* request that followed has been answered with the manifest.
C14_Witness ==
    /\ "get_manifest" \in user_logic.funcs
    /\ Len(Responses) = 2
    /\ AsksManifest(stdin_read[2])
    /\ Responses[2].line = ManifestResponse(2)
    /\ NamespaceAsLoaded
    /\ Responses[1].line.val.tag = "Method execution timeout"
    /\ th[1].ph = "work"

\* The default manifest as the interface documents it.
DocumentedDefault ==
    [id |-> "python.unnamed",
     name |-> "Unnamed Python Script",
     description |-> "No description provided.",
     version |-> "0.0.0",
     capabilities |-> <<"Reasoning">>]

\* The step that reads a get_manifest request answers it with the module's
\* EXIV_MANIFEST if it defines one and with the default otherwise.
ManifestStep ==
    (nread' = nread + 1 /\ AsksManifest(stdin_read'[nread + 1])) =>
        /\ pc' = "respond"
        /\ response'.key = "result"
        /\ IF "EXIV_MANIFEST" \in user_logic.funcs \cup user_logic.datas
           THEN /\ response'.val = JsonObject(user_logic.manifest)
                /\ response'.val # JsonObject(DocumentedDefault)
           ELSE /\ response'.val = JsonObject(DocumentedDefault)
                /\ DefaultManifest = DocumentedDefault

\* C15: get_manifest on a module without EXIV_MANIFEST is answered with the
\* default manifest {id: "python.unnamed", name: "Unnamed Python Script",
\* description: "No description provided.", version: "0.0.0", capabilities:
\* ["Reasoning"]}, and on a module with EXIV_MANIFEST with that value, which
\* is not the default.
C15_DefaultManifestIffUndefined == [][ManifestStep]_vars

\* A module without EXIV_MANIFEST has answered two get_manifest requests.
C15_Witness ==
    /\ "EXIV_MANIFEST" \notin user_logic.funcs \cup user_logic.datas
    /\ Len(Responses) = 2
    /\ AsksManifest(stdin_read[1]) /\ AsksManifest(stdin_read[2])
    /\ Responses[2].line.val.name = "python.unnamed"

\* C16: when the method raised an exception with message m before the
\* timeout elapsed, the response is {id, error: m} with the request's id and
\* the traceback is on the diagnostic channel.
C16_RaiseInTimeIsFailure ==
    (Answered /\ inv.state = "raised") =>
        /\ response = IdResponse(request.id, "error", inv.val, nread)
        /\ "traceback" \in stderr

\* The line is not blank and not a JSON object.
NotAnObject(l) == l.kind \in {"badjson", "nonobject"}

\* C17: a line that is not blank and not a valid JSON object is answered
\* with a response that has an error member and no id member; the Timeout
\* Executor is not entered and no module function runs for it, and once the
\* response is written the dispatch thread reads on (the process ends only
\* at end of input, with status 0).
C17_MalformedLineErrorOnly ==
    /\ \A i \in 1..Len(original_stdout) :
          LET l == original_stdout[i].line
          IN  (l.type = "response" /\ NotAnObject(stdin_read[l.seq])) =>
                  ~l.hasId /\ l.key = "error"
    /\ (nread > 0 /\ NotAnObject(stdin_read[nread])) =>
          /\ pc \in {"respond", "await", "exited"}
          /\ inv.state = "none"
          /\ th[nread].ph = "off"
          /\ th[Main].ph \in {"off", "want", "locked", "half"}
          /\ "request error" \in stderr
          /\ pc = "exited" => exitCode = 0
          /\ pc \in {"await", "exited"} => ResponsesTo(nread) = 1

\* A line of invalid JSON and a line holding a JSON value that is not an
\* object have both been answered.
C17_Witness ==
    /\ nread = 2
    /\ stdin_read[1].kind = "badjson"
    /\ stdin_read[2].kind = "nonobject"
    /\ Len(Responses) = 2
    /\ pc = "await"

\* The components of the canonical form of the script path.
CanonicalForm == ResolveFrom(<<>>, Split(argv, <<>>))

\* The canonical form of the script path is neither the base directory "/s"
\* nor a location below it.
OutsideBase ==
    LET base == <<<<"s">>>>
    IN  ~(Len(CanonicalForm) >= Len(base)
          /\ SubSeq(CanonicalForm, 1, Len(base)) = base)

\* C20: with a script path whose canonical form is outside the allowed
\* directory the process never gets to opening the file, to the analyzer or
\* to the loader: it ends at the path check with status 1 and a diagnostic.
C20_OutsidePathNeverOpened ==
    (argv # NoArg /\ OutsideBase) =>
        /\ pc \in {"argv", "path", "exited"}
        /\ ~moduleRan
        /\ pc # "exited" => ENABLED (CheckArgv \/ CheckPath)
        /\ pc = "exited" => exitCode = 1 /\ stderr = {"outside"}

\* The path of a symbolic link that lies in the allowed directory and points
\* out of it has been refused.
C20_Witness ==
    /\ argv = <<"/", "s", "/", "l">>
    /\ OutsideBase
    /\ pc = "exited"
    /\ exitCode = 1

\* The diagnostics of the fatal startup conditions that have occurred: no
\* script argument, a path outside the allowed directory, a security
\* violation, a syntax error, an exception of the module body.
FatalStartup ==
    (IF argv = NoArg THEN {"usage"} ELSE {})
    \cup (IF argv # NoArg /\ OutsideBase THEN {"outside"} ELSE {})
    \cup (IF srcFlags.imports \/ srcFlags.calls THEN {"security"} ELSE {})
    \cup (IF source = SyntaxErr THEN {"syntax"} ELSE {})
    \cup (IF "load" \in stderr THEN {"load"} ELSE {})

\* C18: under each fatal startup condition the process ends with status 1
\* and a diagnostic of that condition before the dispatch loop starts: no
\* line of input is read and nothing is written to the protocol stream.
C18_FatalStartupExitsBeforeLoop ==
    FatalStartup # {} =>
        /\ pc \in {"argv", "path", "check", "exited"}
        /\ stdin_read = <<>>
        /\ original_stdout = <<>>
        /\ ALLOWED_METHODS = {}
        /\ pc # "exited" => ENABLED (CheckArgv \/ CheckPath \/ SecurityGate)
        /\ pc = "exited" => exitCode = 1 /\ stderr \cap FatalStartup # {}

\* The module body has raised.
C18_Witness ==
    /\ "load" \in stderr
    /\ moduleRan
    /\ pc = "exited"
    /\ exitCode = 1

\* C19: after a setup hook that raised, the failure is on the diagnostic
\* channel and not on the protocol stream, the process has not ended because
\* of it, the registry is built from the core names and the discovered
\* actions, lines are read, and every line answered without a method call
\* gets the answer its content and the module determine.
C19_SetupFailureNotFatal ==
    "setup" \in stderr =>
        /\ "setup" \in user_logic.funcs
        /\ pc \notin {"argv", "path", "check", "load", "exec", "setup"}
        /\ pc = "registry" => ENABLED BuildRegistry
        /\ pc # "registry" => ALLOWED_METHODS = AllowedNames
        /\ (pc = "await" /\ nread < MaxLines) => ENABLED ReadLine
        /\ pc = "exited" => (exitCode = 0 \/ nread > 0)
        /\ \A i \in 1..Len(original_stdout) :
              LET l == original_stdout[i].line
                  r == Route(stdin_read[l.seq], user_logic, AllowedNames, l.seq)
              IN  /\ l.val.tag # "setup"
                  /\ (l.type = "response" /\ r.go = "respond"
                      /\ NamespaceAsLoaded) => l = r.response

\* The setup hook raised and two requests have been answered since.
C19_Witness ==
    /\ "setup" \in stderr
    /\ Len(Responses) = 2
    /\ Responses[1].line.key = "result"
    /\ pc = "await"

\* ------------------------------------------------ the two strategies

\* The thread that runs the method of the current request.
Invoker == IF platform = "win32" THEN nread ELSE Main

\* The dispatch thread is waiting for a method that never returns on its own
\* and catches nothing (blocking_method of test_bridge_timeout.py).
WaitingForBlocked == Dispatching /\ th[Invoker].beh = "block"

\* C21: under either strategy and for every configured timeout n, a method
\* that has not returned when the timeout elapses is answered with
\* Failure("Method execution timeout (n seconds)"), the outcome the other
\* strategy gives for the same behaviour and the same n.
C21_StrategiesEquivalent ==
    [](WaitingForBlocked =>
          <>(/\ pc = "respond"
             /\ response = IdResponse(request.id, "error",
                                      Val("Method execution timeout", "seconds",
                                          timeout_secs),
                                      nread)))

\* ------------------------------------------------ what a request can call

\* The step hands a method of the module to the Timeout Executor.
StartsInvocation == nread' = nread + 1 /\ pc' \in {"call", "join"}

\* The invocation a step starts is for the name the line asks for, which is
\* a core name or an action found by the scan of lines 198-203, and an
\* attribute of the module in the state the line is read in.
InvokesOnlyAllowedDefined ==
    StartsInvocation =>
        LET l == stdin_read'[nread + 1]
        IN  /\ l.kind = "object"
            /\ l.mtype = "str"
            /\ l.method \in AllowedNames
            /\ l.method \in user_logic.funcs \cup user_logic.datas
            /\ inv'.state = "running"
            /\ inv'.fn.name = l.method

\* Only the step that reads a line puts a method on a thread.
OnlyRequestsInvoke ==
    /\ \A k \in Workers :
          (th[k].ph = "off" /\ th'[k].ph # "off") =>
              StartsInvocation /\ k = nread + 1
    /\ (th[Main].beh = "" /\ th'[Main].beh # "") => StartsInvocation
    /\ (inv.state # "running" /\ inv'.state = "running") => StartsInvocation

\* Names of the module's namespace that are neither core nor actions.
OtherAttributes ==
    {"helper", "on_action_Bad", "on_action_flag", "on_action_late",
     "emit_event", "EXIV_MANIFEST"}

\* C22: a function of the module is invoked for a request only if the
\* requested name is in the union of the core set and the actions discovered
\* at load and the module defines it when the request is dispatched; no
\* request makes the dispatcher call any other attribute of the module.
C22_OnlyAllowedDefinedInvoked ==
    /\ [][InvokesOnlyAllowedDefined /\ OnlyRequestsInvoke]_vars
    /\ [](/\ inv.fn.name \notin OtherAttributes
          /\ \A k \in Workers :
                th[k].ph # "off" =>
                    stdin_read[k].method \in AllowedNames \ OtherAttributes)

\* The helper of the module was requested and refused, then the action the
\* scan found was requested and its invocation is running.
C22_Witness ==
    /\ nread = 2
    /\ stdin_read[1].method = "helper"
    /\ "helper" \in user_logic.funcs
    /\ Len(Responses) = 1
    /\ Responses[1].line.val = Val("not allowed", "helper", 0)
    /\ stdin_read[2].method = "on_action_go"
    /\ Dispatching
    /\ inv.state = "running"
    /\ inv.fn.name = "on_action_go"

\* ------------------------------------------------ the registry is frozen

\* The allowed set is assigned by the registry step only, with no line read.
RegistryAssignedOnce ==
    ALLOWED_METHODS' # ALLOWED_METHODS =>
        /\ pc = "registry"
        /\ pc' = "await"
        /\ nread = 0
        /\ nread' = 0

\* The response of the step refuses the method of the line as "not allowed".
Refuses(l, r) == r.key = "error" /\ r.val = Val("not allowed", l.method, 0)

\* The step that reads a request for a name other than get_manifest refuses
\* it exactly if the scan at startup did not put the name in the allowed set,
\* whatever the namespace holds by now.
SameVerdictAlways ==
    LET l == stdin_read'[nread + 1]
    IN  (nread' = nread + 1 /\ l.kind = "object" /\ l.mtype = "str"
         /\ l.method # "get_manifest") =>
            /\ (pc' = "respond" /\ Refuses(l, response')) <=>
                   l.method \notin AllowedNames
            /\ l.method \in AllowedNames <=> l.method \in ALLOWED_METHODS

\* C23: the set of allowed method names is computed once, before the first
\* input line is read, and never changes afterwards: whatever an invocation
\* does to the module namespace, a name is accepted or answered "not allowed"
\* identically for every request of the run.
C23_RegistryFrozen ==
    /\ [][RegistryAssignedOnce /\ SameVerdictAlways]_vars
    /\ [](nread > 0 => ALLOWED_METHODS = AllowedNames)

\* A method has defined on_action_late and removed on_action_go; the next
\* request, for on_action_late, which the module now defines, was refused.
C23_Witness ==
    /\ nread = 2
    /\ "on_action_late" \in user_logic.funcs
    /\ "on_action_go" \notin user_logic.funcs
    /\ "on_action_go" \in ALLOWED_METHODS
    /\ stdin_read[2].method = "on_action_late"
    /\ Len(Responses) = 2
    /\ Responses[2].line.val = Val("not allowed", "on_action_late", 0)

\* ------------------------------------------------ manifest and callables

\* The manifest the module had when startup ended.
StartupManifest ==
    IF user_logic.startup = NoManifest THEN DocumentedDefault
    ELSE user_logic.startup

\* C24: the manifest and the mapping from names to callables do not change
\* after startup: every get_manifest response of a run carries the manifest
\* the module had when the registry was built, so any two are equal, and
\* every invocation is of the callable bound to the name at that time,
\* whatever the methods run in between did to the namespace.
C24_ManifestAndCallablesImmutable ==
    /\ \A i \in 1..Len(Responses) :
          AsksManifest(stdin_read[Responses[i].line.seq]) =>
              Responses[i].line.val = JsonObject(StartupManifest)
    /\ \A i, j \in 1..Len(Responses) :
          (/\ AsksManifest(stdin_read[Responses[i].line.seq])
           /\ AsksManifest(stdin_read[Responses[j].line.seq])) =>
              Responses[i].line.val = Responses[j].line.val
    /\ inv.state # "none" => inv.fn.gen = 0

\* ------------------------------------------------ abandoned workers

\* The timeout response to line k is on the stream.
TimeoutReported(k) ==
    \E i \in 1..Len(Responses) :
        /\ Responses[i].line.seq = k
        /\ Responses[i].line.val.tag = "Method execution timeout"

\* The response l to a dispatched line carries what that line's own
\* invocation produced, or the report of its own timeout.
OwnOutcome(l) ==
    LET q == stdin_read[l.seq]
        o == MethodOutcome(IF q.method = "think" THEN q.params ELSE "ret")
    IN  \/ l.key = "result" /\ o.out = "ret" /\ l.val = o.val
        \/ l.key = "error" /\ l.val.tag \notin {"ok", "caught", "boom"}
        \/ l.key = "error" /\ l.val.tag = "boom" /\ q.params = "raise"

\* C25: under the watchdog strategy, once the timeout of a request is
\* reported, what its abandoned worker returns or raises later is dropped: the
\* request keeps its one timeout response, no line of the stream is written
\* by a worker as a response, and the response of every later request carries
\* the outcome of that request's own invocation.
C25_LateResultDiscarded ==
    platform = "win32" =>
        \A k \in 1..nread :
            TimeoutReported(k) =>
                /\ ResponsesTo(k) = 1
                /\ \A i \in 1..Len(original_stdout) :
                      LET l == original_stdout[i].line
                      IN  /\ l.type = "response" => l.by = Main
                          /\ (l.type = "response" /\ l.seq > k
                              /\ ~AsksManifest(stdin_read[l.seq])
                              /\ stdin_read[l.seq].kind = "object"
                              /\ stdin_read[l.seq].mtype = "str") =>
                                  OwnOutcome(l)
                /\ (pc = "respond" /\ nread > k /\ inv.state # "none") =>
                      OwnOutcome(response)

\* The worker of the first request returned "ok" after its timeout was
\* reported and has stored it; the second request, whose method died, has
\* been answered.
C25_Witness ==
    /\ platform = "win32"
    /\ nread = 2
    /\ TimeoutReported(1)
    /\ th[1].ph = "dead"
    /\ result_container[1] =
         [hasResult |-> TRUE, success |-> "true", val |-> Val("ok", "", 0)]
    /\ stdin_read[2].params = "base"
    /\ Len(Responses) = 2
    /\ Responses[2].line.seq = 2

\* The method of worker k is still executing.
LiveInvocation(k) == th[k].ph \in {"work", "want", "locked", "half", "after"}

\* The steps of the dispatch thread through the watchdog executor leave every
\* worker as it is.
WatchdogLeavesWorkers ==
    (pc \in {"join", "alive_check"} /\ pc' # pc) =>
        \A k \in Workers : th'[k] = th[k]

\* A worker whose timeout has been reported can take its next step as long
\* as the process lives: go round its loop, call emit_event, return or raise.
AbandonedCanStep(k) ==
    (TimeoutReported(k) /\ th[k].ph = "work" /\ pc # "exited") =>
        ENABLED (MethodLoop(k) \/ MethodEmit(k) \/ MethodEndWorker(k))

\* C26: under the watchdog strategy a worker whose request timed out is
\* abandoned, not terminated: the executor's steps never change a worker, and
\* after the timeout response is written the worker can still emit an event
\* or rebind module state, also while the method of a later request runs.
C26_WorkerAbandoned ==
    /\ [][WatchdogLeavesWorkers]_vars
    /\ [](platform = "win32" => \A k \in Workers : AbandonedCanStep(k))

\* The timeout response of the first request is on the stream, followed by an
\* event its worker emitted afterwards; that worker's method and the method
\* of the second request are executing at the same time.
C26_Witness ==
    /\ platform = "win32"
    /\ nread = 2
    /\ \E i, j \in 1..Len(original_stdout) :
          /\ i < j
          /\ original_stdout[i].part = 2
          /\ original_stdout[i].line.seq = 1
          /\ original_stdout[i].line.val.tag = "Method execution timeout"
          /\ original_stdout[j].line.type = "event"
          /\ original_stdout[j].line.by = 1
    /\ LiveInvocation(1)
    /\ LiveInvocation(2)
    /\ Cardinality({k \in Workers : LiveInvocation(k)}) > 1

\* ------------------------------------------------ preemptive cancellation

\* The dispatch thread carries a method only while it is inside line 58.
MethodOnlyInCall == th[Main].beh # "" => pc = "call"

\* Every event of the dispatch thread that follows the timeout response of
\* line k on the stream was emitted by the method of a later line.
NoEventAfterTimeout(k) ==
    \A i, j \in 1..Len(original_stdout) :
        (/\ i < j
         /\ original_stdout[i].line.type = "response"
         /\ original_stdout[i].line.seq = k
         /\ original_stdout[i].line.val.tag = "Method execution timeout"
         /\ original_stdout[j].line.type = "event"
         /\ original_stdout[j].line.by = Main) =>
            \E k2 \in (k + 1)..nread : stdin_read[k2].params = "emit"

\* The namespace is rebound only by the step that ends a method.
RebindOnlyByMethod ==
    (user_logic'.rebound # user_logic.rebound) => (pc = "call" /\ AtEnd(Main))

\* C27: under the preemptive strategy cancellation is genuine: when the
\* timeout response of a request is built and written its invocation has
\* left the dispatch thread, it emits no event and rebinds nothing
\* afterwards, and no more than one dispatched invocation is in progress at
\* any time.
C27_GenuineCancellation ==
    /\ [](platform = "posix" =>
            /\ \A k \in Workers : th[k].ph = "off"
            /\ MethodOnlyInCall
            /\ (pc = "respond" /\ response.val.tag = "Method execution timeout") =>
                  /\ th[Main].beh = ""
                  /\ th[Main].ph \in {"want", "locked", "half"}
                  /\ th[Main].it = 0
            /\ \A k \in 1..nread : NoEventAfterTimeout(k))
    /\ [][platform = "posix" => RebindOnlyByMethod]_vars

\* A method that was going to emit an event was interrupted before it did:
\* its timeout response is on the stream, no event of the dispatch thread is,
\* and the dispatch thread waits for the next line.
C27_Witness ==
    /\ platform = "posix"
    /\ nread = 1
    /\ stdin_read[1].params = "emit"
    /\ TimeoutReported(1)
    /\ \A i \in 1..Len(original_stdout) : original_stdout[i].line.by # Main
          \/ original_stdout[i].line.type = "response"
    /\ pc = "await"
    /\ th[Main].beh = ""
    /\ inv.state = "expired"

\* ------------------------------------------------ the analyzer's verdict

\* The reference predicate on one syntax node.
ReferenceRejectsNode(n) ==
    \/ n.kind = "Import" /\ \E i \in 1..Len(n.names) :
                               Head(n.names[i].name) \in FORBIDDEN_MODULES
    \/ n.kind = "ImportFrom" /\ Len(n.module) > 0
                             /\ Head(n.module) \in FORBIDDEN_MODULES
    \/ n.kind = "Call" /\ n.func.fk = "Name" /\ n.func.id \in FORBIDDEN_BUILTINS

\* The forms the reference predicate lets through: a forbidden name in a
\* later segment, a relative import, an attribute callee, a callee that is a
\* variable.
KnownGap(n) ==
    \/ n.kind = "Import" /\ n.names = <<Alias(<<"json", "os">>, "")>>
    \/ n.kind = "ImportFrom" /\ n.module \in {<<>>, <<"json", "os">>}
    \/ n.kind = "Call" /\ n.func = [fk |-> "Attribute", id |-> "eval"]
    \/ n.kind = "Call" /\ n.func = [fk |-> "Name", id |-> "print"]

\* C28: the analyzer rejects a script that parses exactly if some import
\* node names a forbidden module as first segment, some from-import node
\* with a module does, or some call node has a forbidden builtin as its
\* bare-name callee; a forbidden name in a later segment, a relative
\* from-import, an attribute-accessed call and a call through a variable are
\* accepted; the run follows the verdict.
C28_VerdictIsReference ==
    source # SyntaxErr =>
        /\ CheckScriptSecurity(source) = "security" <=>
              \E n \in NodesOf(source) : ReferenceRejectsNode(n)
        /\ (\A n \in NodesOf(source) : KnownGap(n) \/ n.kind = "FunctionDef") =>
              CheckScriptSecurity(source) = "ok"
        /\ "security" \in stderr =>
              \E n \in NodesOf(source) : ReferenceRejectsNode(n)
        /\ pc = "load" => \A n \in NodesOf(source) : ~ReferenceRejectsNode(n)
        /\ ~moduleRan =>
              ((srcFlags.imports \/ srcFlags.calls) <=>
                  \E n \in NodesOf(source) : ReferenceRejectsNode(n))
        /\ moduleRan => ~srcFlags.imports /\ ~srcFlags.calls

\* A script with `import json.os` and, inside a function, builtins.eval(...)
\* was accepted: the loader is about to run it.
C28_Witness ==
    /\ Len(source) = 2
    /\ source[1] = Node("Import", <<Alias(<<"json", "os">>, "")>>, <<>>, NoFunc, <<>>)
    /\ source[2].kind = "FunctionDef"
    /\ source[2].body[1].func = [fk |-> "Attribute", id |-> "eval"]
    /\ ~moduleRan
    /\ pc = "load"

\* ------------------------------------------------ aliased imports

\* The node is `import m as x` with m a forbidden module.
AliasedForbiddenImport(n) ==
    /\ n.kind = "Import"
    /\ \E i \in 1..Len(n.names) :
          /\ n.names[i].asname # ""
          /\ Head(n.names[i].name) \in FORBIDDEN_MODULES

\* The script parses, has an aliased import of a forbidden module, and no
\* other node refers to anything forbidden.
OnlyAliasedForbidden ==
    /\ source # SyntaxErr
    /\ \E n \in NodesOf(source) : AliasedForbiddenImport(n)
    /\ \A n \in NodesOf(source) :
          ReferenceRejectsNode(n) => AliasedForbiddenImport(n)

\* C29 as stated: a script whose only forbidden reference is an aliased
\* import of a forbidden module (`import os as x`) is not rejected by the
\* security gate.
C29_AliasedImportPasses ==
    OnlyAliasedForbidden => "security" \notin stderr /\ (pc = "exited" => exitCode # 1)

\* C29: an import of a forbidden module under an alias (`import os as x`) is
\* caught by the analyzer, which reads the name of the imported module and
\* not the name it is bound to: a script whose only forbidden reference is
\* such an import never gets past the security gate and exits with status 1
\* and a security diagnostic before any of its code runs.
C29_AliasedImportRejected ==
    OnlyAliasedForbidden =>
        /\ CheckScriptSecurity(source) = "security"
        /\ ~moduleRan
        /\ pc \in {"argv", "path", "check", "exited"}
        /\ pc = "exited" => exitCode = 1 /\ "security" \in stderr

\* A script whose only statement is `import os as x` has been rejected.
C29_Witness ==
    /\ source = <<Node("Import", <<Alias(<<"os">>, "x")>>, <<>>, NoFunc, <<>>)>>
    /\ pc = "exited"
    /\ exitCode = 1
    /\ stderr = {"security"}

\* ------------------------------------------------ the order of startup

\* The startup steps in the order of main; the dispatch loop is the last.
StartupOrder ==
    <<"argv", "path", "check", "load", "exec", "setup", "registry">>

Rank(p) ==
    IF \E i \in 1..Len(StartupOrder) : StartupOrder[i] = p
    THEN CHOOSE i \in 1..Len(StartupOrder) : StartupOrder[i] = p
    ELSE Len(StartupOrder) + 1

\* A step that moves the dispatch thread moves it to the next startup step,
\* or ends the process, or stays within the dispatch loop.
OneStepAtATime ==
    pc' # pc =>
        \/ pc' = "exited"
        \/ Rank(pc') = Rank(pc) + 1
        \/ Rank(pc) = Len(StartupOrder) + 1 /\ Rank(pc') = Rank(pc)

\* What each step does happens in that step only: the module body runs in
\* the step after emit_event is bound, setup starts its threads and binds its
\* names in the step after, the scan is the step after that, and a line is
\* read only in the dispatch loop.
EffectsInOrder ==
    /\ moduleRan' # moduleRan => pc = "exec" /\ "emit_event" \in user_logic.funcs
    /\ (\E b \in BgThreads : th'[b] # th[b] /\ th[b].ph = "off") => pc = "setup"
    /\ (SetupBinds \cap user_logic'.funcs # SetupBinds \cap user_logic.funcs) =>
          pc = "setup" \/ Rank(pc) = Len(StartupOrder) + 1
    /\ user_logic'.scanned # user_logic.scanned => pc = "registry"
    /\ nread' # nread => pc = "await" /\ Rank(pc) = Len(StartupOrder) + 1

\* C30: startup goes through path check, security analysis, binding of
\* emit_event, execution of the module body, the call of setup and the scan
\* for the registry in this order, each once and each only after the one
\* before went through, and a line is read only after the scan; so a name
\* bound by setup is in the registry when the module defines setup, a name
\* bound later never is, and startup calls setup once.
C30_StartupOrder ==
    /\ [][OneStepAtATime /\ EffectsInOrder]_vars
    /\ [](Rank(pc) = Len(StartupOrder) + 1 /\ pc # "exited" =>
            /\ moduleRan
            /\ "emit_event" \in user_logic.scanned
            /\ "setup" \in user_logic.scanned =>
                  SetupBinds \subseteq ALLOWED_METHODS
            /\ "on_action_late" \notin ALLOWED_METHODS)

\* setup bound on_action_go and a method bound on_action_late afterwards: the
\* first is in the registry, the second is a callable of the module and is
\* not, and a second line has been read.
C30_Witness ==
    /\ "setup" \in user_logic.scanned
    /\ "on_action_go" \in ALLOWED_METHODS
    /\ "on_action_late" \in user_logic.funcs
    /\ "on_action_late" \notin ALLOWED_METHODS
    /\ nread = 2
    /\ pc = "await"

\* ------------------------------------------------ the executor and the stream

\* The chunk a step puts on the stream.
Written == original_stdout'[Len(original_stdout) + 1]

\* A step puts at most one chunk on the stream and takes none away.
StreamGrows ==
    original_stdout' # original_stdout =>
        /\ Len(original_stdout') = Len(original_stdout) + 1
        /\ SubSeq(original_stdout', 1, Len(original_stdout)) = original_stdout

\* While the dispatch thread is inside the executor only events go on the
\* stream, and no step into, inside or out of the executor writes.
ExecutorWritesNothing ==
    /\ (original_stdout' # original_stdout /\ Dispatching) =>
          /\ Written.line.type = "event"
          /\ pc' = pc
          /\ inv' = inv
    /\ (pc' # pc /\ (Dispatching \/ Dispatching')) =>
          original_stdout' = original_stdout

\* A response goes on the stream from the dispatch thread at line 255, for
\* the line read last, and is the response built from the outcome.
ResponseAfterOutcome ==
    (original_stdout' # original_stdout /\ Written.line.type = "response") =>
        /\ pc = "respond"
        /\ Written.line = response
        /\ Written.line.by = Main
        /\ Written.line.seq = nread
        /\ inv.state # "running"

\* C31: the Timeout Executor writes nothing to the protocol stream: during
\* an invocation the only lines written are events emitted by module code,
\* and the response of the request is written by the dispatcher after the
\* executor has returned its outcome.
C31_ExecutorWritesNothing ==
    [][StreamGrows /\ ExecutorWritesNothing /\ ResponseAfterOutcome]_vars

\* The method of the first request emitted an event while the executor was
\* waiting for it, then returned; the response follows the event on the
\* stream.
C31_Witness ==
    /\ nread = 1
    /\ stdin_read[1].params = "emit"
    /\ Len(original_stdout) = 4
    /\ original_stdout[1].line.type = "event"
    /\ original_stdout[2].line.type = "event"
    /\ original_stdout[3].line.type = "response"
    /\ original_stdout[4].line = IdResponse(stdin_read[1].id, "result",
                                            Val("ok", "", 0), 1)
    /\ pc = "await"

\* ------------------------------------------------ the deadline timer

\* The dispatch thread is between lines 54 and 67 of the signal executor.
InSignalExecutor == pc \in {"call", "sig_returned", "sig_except"}

\* No SIGALRM is pending and the handler is the one of before line 54.
TimerIdle == ~alarm.armed /\ alarm.handler = "default"

\* The timer is armed by the step that enters the executor only, for the
\* request read in that step.
ArmedOnEntryOnly ==
    (alarm'.armed /\ ~alarm.armed) =>
        /\ pc = "await"
        /\ pc' = "call"
        /\ nread' = nread + 1
        /\ alarm'.handler = "timeout_handler"

\* C32: under the preemptive strategy, whenever the executor has returned
\* an outcome or its timeout has left it, no deadline is armed and the
\* SIGALRM handler of before is back: a deadline armed for one request
\* cannot fire while its response is written or a later line is handled.
C32_TimerDisarmedOutside ==
    /\ [](platform = "posix" =>
            /\ (~InSignalExecutor /\ pc # "exited") =>
                  TimerIdle /\ ~ENABLED AlarmFire
            /\ (pc = "exited" /\ inv.state # "died") => TimerIdle
            /\ InSignalExecutor => alarm.handler = "timeout_handler"
            /\ (InSignalExecutor /\ alarm.armed) => inv.state # "expired")
    /\ [][ArmedOnEntryOnly]_vars

\* With a timeout of 8 seconds the method raised in time: the executor has
\* returned the failure, the timer is cancelled, the handler restored, and
\* the response is being written.
C32_Witness ==
    /\ platform = "posix"
    /\ timeout_secs = 8
    /\ pc = "respond"
    /\ inv.state = "raised"
    /\ response.val = Val("boom", "", 0)
    /\ th[Main].ph = "half"
    /\ TimerIdle

\* ------------------------------------------------ the writer lock

\* The lock is held by a thread exactly while that thread is inside a with
\* statement of lines 28 or 254.
HeldInsideWithOnly ==
    \A t \in Threads : stdout_lock = t <=> th[t].ph \in {"locked", "half"}

\* A step in which thread t gives the lock back.
Releases(t) == stdout_lock = t /\ stdout_lock' # t

\* The dispatch thread gives the lock back having written its response; a
\* thread in emit_event having written its event, or, on the dispatch thread,
\* because the timeout interrupted the method.
ReleasedAfterWrite ==
    /\ (Releases(Main) /\ pc = "respond") =>
          /\ original_stdout' = Append(original_stdout, Chunk(response, 2))
          /\ pc' = "await"
    /\ (Releases(Main) /\ pc # "respond") =>
          \/ original_stdout' = Append(original_stdout, Chunk(EventLine(Main), 2))
          \/ original_stdout' = original_stdout /\ inv'.state = "expired"
    /\ \A t \in Threads \ {Main} :
          Releases(t) =>
              original_stdout' = Append(original_stdout, Chunk(EventLine(t), 2))

\* C33: the writer lock is never leaked: a thread holds it only inside its
\* with statement and gives it back after its write, the dispatch thread
\* also when the timeout interrupts a method inside emit_event; under fair
\* scheduling a dispatcher that has a response to write gets the lock and
\* writes it, and goes on to the next line.
C33_LockNeverLeaked ==
    /\ [](HeldInsideWithOnly)
    /\ [][ReleasedAfterWrite]_vars
    /\ [](pc = "respond" => <>(pc = "await"))

\* ------------------------------------------------ blank lines

\* The step reads an empty or whitespace-only line.
ReadsBlank == nread' = nread + 1 /\ stdin_read'[nread + 1].kind = "blank"

\* Reading a blank line changes nothing but the position in the input.
BlankChangesNothing ==
    ReadsBlank =>
        /\ stdin_read' = Append(stdin_read, Line("blank", 0, "", "", ""))
        /\ UNCHANGED <<argv, source, srcFlags, platform, timeout_secs, pc,
                       exitCode, user_logic, ALLOWED_METHODS, request, response,
                       alarm, th, result_container, inv, stdout_lock,
                       original_stdout, stderr, moduleRan>>

\* No line of the stream answers a blank line and no worker was started for
\* one.
BlankUnanswered ==
    \A k \in 1..nread :
        stdin_read[k].kind = "blank" =>
            /\ \A i \in 1..Len(original_stdout) : original_stdout[i].line.seq # k
            /\ th[k].ph = "off"
            /\ result_container[k] = EmptyContainer
            /\ (k = nread /\ pc = "respond") => response.seq # k

\* C34: an empty or whitespace-only input line is skipped: it gets no
\* response, no function of the module is invoked for it and the state of
\* the dispatcher is what it was, so the lines after it are handled as they
\* would have been without it.
C34_BlankLineSkipped ==
    /\ [][BlankChangesNothing]_vars
    /\ [](BlankUnanswered)

\* A blank line was read first and then a request, whose response is the
\* only one on the stream.
C34_Witness ==
    /\ nread = 2
    /\ stdin_read[1].kind = "blank"
    /\ stdin_read[2].method = "think"
    /\ Len(Responses) = 1
    /\ Responses[1].line = IdResponse(stdin_read[2].id, "result",
                                      Val("ok", "", 0), 2)
    /\ ResponsesTo(1) = 0
    /\ pc = "await"

====
